---- MODULE Spec2Model ----
(***************************************************************************)
(* chrono_machines: the retry engine (core/src/retry.rs) and the backoff   *)
(* strategies it consults (core/src/backoff.rs).                           *)
(*                                                                         *)
(* Representation.                                                         *)
(*  - Option<T>: None is <<>>, Some(x) is <<x>>.                           *)
(*  - Result<T, E>: [ok |-> TRUE, val |-> v] / [ok |-> FALSE, val |-> e].  *)
(*  - u64: four 16-bit limbs, least significant first, so that the full    *)
(*    64-bit width is kept (saturating_add saturates at 2^64 - 1).         *)
(*  - u8: an integer in 0..U8Max.                                          *)
(*  - f64: m * 2^e with m of at most 53 bits, every operation rounded as   *)
(*    IEEE 754 rounds it, so that `as f64` and `as u64` are the            *)
(*    conversions of the code and not the identity.  Multipliers are a     *)
(*    numerator over 2, random scalars a numerator over 2^JitterBits;      *)
(*    jitter factors are such a numerator, 0.3 (which no f64 holds         *)
(*    exactly) or NaN.                                                     *)
(***************************************************************************)
EXTENDS Integers, Sequences, FiniteSets, TLC

VARIABLES
    operation,            \* RetryBuilder.operation: the FnMut closure (its script of results)
    invocations,          \* the times the closure has been invoked
    backoff,              \* RetryBuilder.backoff: the strategy
    when,                 \* RetryBuilder.when: Option<predicate>
    notify,               \* RetryBuilder.notify: Option<callback>
    on_success,           \* RetryBuilder.on_success: Option<callback>
    on_failure,           \* RetryBuilder.on_failure: Option<callback>
    pc,                   \* "builder" | "loop" | "returned"
    attempt,              \* call_with_sleeper: let mut attempt = 1u8
    max_attempts,         \* call_with_sleeper: let max_attempts = self.backoff.max_attempts()
    cumulative_delay_ms,  \* call_with_sleeper: let mut cumulative_delay_ms: u64 = 0
    trace,                \* every call made by call_with_sleeper, in order
    result,               \* Option<Result<RetryOutcome, RetryError>>: the value returned
    first,                \* Option: the predicate and the result of an earlier call with
                          \* the same operation and strategy
    probe,                \* Option: the last direct use of a strategy's methods
    setter_calls,         \* the setter calls made on the builder, where they are recorded
    entries,              \* GLOBAL_POLICIES: PolicyRegistry.entries, a Vec<(String, BackoffPolicy)>
    rwlock,               \* GLOBAL_POLICIES: the RwLock, its write and read guards
    threads,              \* the threads that use the global registry: their position
    history               \* the register / remove / clear calls applied to the registry, in order

\* the global registry and its users
global_registry == <<entries, rwlock, threads, history>>

vars == <<operation, invocations, backoff, when, notify, on_success, on_failure, pc,
          attempt, max_attempts, cumulative_delay_ms, trace, result, first, probe,
          setter_calls, global_registry>>

-----------------------------------------------------------------------------
(* Bounds of the model.                                                    *)

\* max_attempts of the strategies of Spec is drawn from 0..MaxAttemptsBound
MaxAttemptsBound == 3
\* jitter factors and random scalars are multiples of 2^-JitterBits
JitterBits == 1
\* cap on the operation invocations of one call (binding only for a custom
\* strategy that never declines)
MaxInvocations == 258

\* the scripted failures of the operations of Spec
MaxFailures == 2

\* the setter calls recorded on one builder
MaxSetterCalls == 2

\* the register / remove / clear calls applied to one registry
MaxRegistryOps == 3

\* u8::MAX, the type of the attempt counter
U8Max == 255

-----------------------------------------------------------------------------
(* Option and Result.                                                      *)

None == <<>>
Some(x) == <<x>>
IsSome(o) == Len(o) = 1
Unwrap(o) == o[1]

Ok(v) == [ok |-> TRUE, val |-> v]
Err(e) == [ok |-> FALSE, val |-> e]

Min(a, b) == IF a <= b THEN a ELSE b
Max(a, b) == IF a >= b THEN a ELSE b

RECURSIVE Pow(_, _)
Pow(b, e) == IF e = 0 THEN 1 ELSE b * Pow(b, e - 1)

-----------------------------------------------------------------------------
(* u64 as four 16-bit limbs.                                               *)

Limb == 0..65535
U64Zero == <<0, 0, 0, 0>>
U64MAX == <<65535, 65535, 65535, 65535>>

\* the u64 of a small natural number (n < 2^31)
U64(n) == <<n % 65536, n \div 65536, 0, 0>>

\* u64::saturating_add
saturating_add_u64(a, b) ==
    LET s1 == a[1] + b[1]
        s2 == a[2] + b[2] + s1 \div 65536
        s3 == a[3] + b[3] + s2 \div 65536
        s4 == a[4] + b[4] + s3 \div 65536
    IN  IF s4 \div 65536 > 0 THEN U64MAX
        ELSE <<s1 % 65536, s2 % 65536, s3 % 65536, s4 % 65536>>

\* a mutant of saturating_inc_u8: u8::wrapping_add(1)
saturating_inc_u8_Wrapping(a) == (a + 1) % (U8Max + 1)

\* a mutant of saturating_inc_u8: the counter is not incremented
saturating_inc_u8_Stuck(a) == a

\* u8::saturating_add(1)
saturating_inc_u8(a) == IF a >= U8Max THEN U8Max ELSE a + 1

\* u8::saturating_sub(1)
saturating_dec_u8(a) == IF a = 0 THEN 0 ELSE a - 1

-----------------------------------------------------------------------------
(* Natural numbers of any size, as little-endian sequences of bytes: the    *)
(* integers of the f64 arithmetic of backoff.rs exceed the integers of TLC. *)

\* 2^k for k in 0..8
TwoTo(k) == <<1, 2, 4, 8, 16, 32, 64, 128, 256>>[k + 1]

\* a function on 1..n, evaluated to the sequence it is
AsSeq(f) == SubSeq(f, 1, Len(f))

\* the k-th byte of n (0 beyond its length)
Byte(n, k) == IF k \in DOMAIN n THEN n[k] ELSE 0

NatOfInt(x) == <<x % 256, (x \div 256) % 256, (x \div 65536) % 256, x \div 16777216>>

\* the bytes of a u64
NatOfU64(u) ==
    AsSeq([k \in 1..8 |-> IF k % 2 = 1 THEN u[(k + 1) \div 2] % 256
                                      ELSE u[(k + 1) \div 2] \div 256])

\* the u64 of a natural number below 2^64
U64OfNat(n) == AsSeq([i \in 1..4 |-> Byte(n, 2 * i - 1) + 256 * Byte(n, 2 * i)])

\* the index of the highest byte of n that is not 0, at or below k (0 if none)
RECURSIVE TopByte(_, _)
TopByte(n, k) == IF k = 0 THEN 0 ELSE IF n[k] # 0 THEN k ELSE TopByte(n, k - 1)

\* the number of bits of a byte
ByteLen(x) ==
    IF x >= 16 THEN (IF x >= 64 THEN (IF x >= 128 THEN 8 ELSE 7)
                                ELSE (IF x >= 32 THEN 6 ELSE 5))
    ELSE IF x >= 4 THEN (IF x >= 8 THEN 4 ELSE 3)
    ELSE IF x >= 2 THEN 2 ELSE x

\* the number of bits of n (0 for 0)
BitLen(n) ==
    LET top == TopByte(n, Len(n))
    IN  IF top = 0 THEN 0 ELSE 8 * (top - 1) + ByteLen(n[top])

\* n without its leading zero bytes
Trimmed(n) == SubSeq(n, 1, TopByte(n, Len(n)))

\* bit i of n (bit 0 is the lowest)
Bit(n, i) == (Byte(n, i \div 8 + 1) \div TwoTo(i % 8)) % 2

\* n >> s
Shr(n, s) ==
    LET q == s \div 8
        r == s % 8
    IN  AsSeq([k \in 1..Max(Len(n) - q, 0) |->
                (Byte(n, k + q) \div TwoTo(r))
                    + ((Byte(n, k + q + 1) % TwoTo(r)) * TwoTo(8 - r))])

\* n << s
Shl(n, s) ==
    LET q == s \div 8
        r == s % 8
    IN  AsSeq([k \in 1..(Len(n) + q + 1) |->
                ((Byte(n, k - q) * TwoTo(r)) % 256)
                    + (Byte(n, k - q - 1) \div TwoTo(8 - r))])

\* the low s bits of n are not all 0
LowBitsSet(n, s) ==
    \/ \E k \in 1..(s \div 8) : Byte(n, k) # 0
    \/ (Byte(n, s \div 8 + 1) % TwoTo(s % 8)) # 0

\* carry propagation: the number whose k-th byte is cols[k], any size
RECURSIVE Carried(_, _, _)
Carried(cols, k, carry) ==
    IF k > Len(cols)
    THEN IF carry = 0 THEN <<>> ELSE <<carry % 256>> \o Carried(cols, k, carry \div 256)
    ELSE <<(cols[k] + carry) % 256>> \o Carried(cols, k + 1, (cols[k] + carry) \div 256)

NatAdd(a, b) ==
    Carried(AsSeq([k \in 1..Max(Len(a), Len(b)) |-> Byte(a, k) + Byte(b, k)]), 1, 0)

\* a - b for a >= b: a plus the complement of b, without the carry out
NatSub(a, b) ==
    LET len == Max(Len(a), Len(b))
        sum == Carried(AsSeq([k \in 1..len |-> Byte(a, k) + (255 - Byte(b, k))]), 1, 1)
    IN  SubSeq(sum, 1, len)

RECURSIVE ColumnSum(_, _, _, _)
ColumnSum(a, b, k, i) ==
    IF i > Len(a) THEN 0 ELSE Byte(a, i) * Byte(b, k + 1 - i) + ColumnSum(a, b, k, i + 1)

NatMul(a, b) ==
    IF Len(a) = 0 \/ Len(b) = 0 THEN <<>>
    ELSE Carried(AsSeq([k \in 1..(Len(a) + Len(b) - 1) |-> ColumnSum(a, b, k, 1)]), 1, 0)

\* a < b
NatLess(a, b) ==
    \E k \in 1..Max(Len(a), Len(b)) :
        /\ Byte(a, k) < Byte(b, k)
        /\ \A j \in (k + 1)..Max(Len(a), Len(b)) : Byte(a, j) = Byte(b, j)

-----------------------------------------------------------------------------
(* f64: the finite values >= 0 are records [m, e] standing for m * 2^e with *)
(* m a natural number of at most 53 bits.  The model keeps the rounding of  *)
(* every operation (to nearest, ties to even) and leaves out the limits of  *)
(* the exponent, which the values of the model stay far away from.  Every   *)
(* operation binds its operands to variables before it uses them, so that   *)
(* an operand is evaluated once and before the operation.                   *)

F64Bits == 53

\* m * 2^e rounded to 53 bits, to nearest and ties to even
RoundF64(m, e) ==
    CHOOSE z \in {LET len == BitLen(mv)
                      s == len - F64Bits
                  IN  IF s <= 0 THEN [m |-> mv, e |-> e]
                      ELSE LET kept == Shr(mv, s)
                               up == /\ Bit(mv, s - 1) = 1
                                     /\ (LowBitsSet(mv, s - 1) \/ Bit(kept, 0) = 1)
                           IN  [m |-> IF up THEN NatAdd(kept, <<1>>) ELSE kept,
                                e |-> e + s] : mv \in {Trimmed(m)}} : TRUE

\* `x as f64` of a u64
u64_as_f64(u) == RoundF64(NatOfU64(u), 0)

\* x * y
F64Mul(x, y) ==
    CHOOSE z \in {RoundF64(NatMul(xv.m, yv.m), xv.e + yv.e) :
                    xv \in {x}, yv \in {y}} : TRUE

\* x + y: the exact sum, rounded
F64Add(x, y) ==
    CHOOSE z \in {RoundF64(NatAdd(Shl(xv.m, xv.e - Min(xv.e, yv.e)),
                                  Shl(yv.m, yv.e - Min(xv.e, yv.e))),
                           Min(xv.e, yv.e)) : xv \in {x}, yv \in {y}} : TRUE

\* x - y for x >= y: the exact difference, rounded
F64Sub(x, y) ==
    CHOOSE z \in {RoundF64(NatSub(Shl(xv.m, xv.e - Min(xv.e, yv.e)),
                                  Shl(yv.m, yv.e - Min(xv.e, yv.e))),
                           Min(xv.e, yv.e)) : xv \in {x}, yv \in {y}} : TRUE

\* x < y
F64Less(x, y) ==
    LET e0 == Min(x.e, y.e)
    IN  NatLess(Shl(x.m, x.e - e0), Shl(y.m, y.e - e0))

\* f64::min
F64Min(x, y) ==
    CHOOSE z \in {IF F64Less(yv, xv) THEN yv ELSE xv : xv \in {x}, yv \in {y}} : TRUE

\* the loop of f64::powi for an exponent b > 0 (square and multiply, from
\* the lowest bit of b): r is the product so far, a the current square.
\* The bound variables hold the values of one turn.
RECURSIVE PowiLoop(_, _, _)
PowiLoop(a, b, r) ==
    CHOOSE res \in {IF b \div 2 = 0 THEN r1 ELSE PowiLoop(a2, b \div 2, r1) :
                        r1 \in {IF b % 2 = 1 THEN F64Mul(r, a) ELSE r},
                        a2 \in {IF b \div 2 = 0 THEN a ELSE F64Mul(a, a)}} : TRUE

\* f64::powi for an exponent >= 0 (exact while the squares and the
\* products have at most 53 bits)
F64Powi(x, n) ==
    IF n = 0 THEN [m |-> <<1>>, e |-> 0]
    ELSE PowiLoop(x, n, [m |-> <<1>>, e |-> 0])

\* `x as u64`: truncates, and saturates at u64::MAX
f64_as_u64(x) ==
    CHOOSE u \in {IF xv.e >= 0
                  THEN IF BitLen(xv.m) + xv.e > 64 THEN U64MAX
                       ELSE U64OfNat(Shl(xv.m, xv.e))
                  ELSE U64OfNat(Shr(xv.m, -xv.e)) : xv \in {x}} : TRUE

-----------------------------------------------------------------------------
(* The f64 parameters of the model: NaN, or a value v >= 0 with its sign.   *)

J == Pow(2, JitterBits)
\* n / 2^JitterBits
F64(n) == [nan |-> FALSE, neg |-> FALSE, v |-> [m |-> NatOfInt(n), e |-> -JitterBits]]
\* -n / 2^JitterBits (n > 0)
NegF64(n) == [nan |-> FALSE, neg |-> TRUE, v |-> [m |-> NatOfInt(n), e |-> -JitterBits]]
NaN == [nan |-> TRUE, neg |-> FALSE, v |-> [m |-> <<>>, e |-> 0]]
\* 0.3: the f64 nearest to it, 5404319552844595 / 2^54
ThreeTenths ==
    [nan |-> FALSE, neg |-> FALSE, v |-> [m |-> <<51, 51, 51, 51, 51, 51, 19>>, e |-> -54]]

\* 1.0
F64One == [m |-> <<1>>, e |-> 0]

\* a mutant of clamp01: every value out of range becomes 0.0
clamp01_ToZero(x) ==
    IF x.nan THEN x
    ELSE IF x.neg \/ F64Less(F64One, x.v)
         THEN [nan |-> FALSE, neg |-> FALSE, v |-> [m |-> <<>>, e |-> 0]]
    ELSE x

\* f64::clamp(0.0, 1.0): NaN stays NaN, a value below 0.0 becomes 0.0 and a
\* value above 1.0 becomes 1.0
clamp01(x) ==
    IF x.nan THEN x
    ELSE IF x.neg THEN [nan |-> FALSE, neg |-> FALSE, v |-> [m |-> <<>>, e |-> 0]]
    ELSE IF F64Less(F64One, x.v) THEN [nan |-> FALSE, neg |-> FALSE, v |-> F64One]
    ELSE x

\* the random scalar r / 2^JitterBits
RandomScalar(r) == [m |-> NatOfInt(r), e |-> -JitterBits]

\* let jitter_blend = 1.0 - jitter_factor + random_scalar * jitter_factor;
JitterBlend(jf, r) == F64Add(F64Sub(F64One, jf), F64Mul(RandomScalar(r), jf))

\* let jittered = base * jitter_blend, for a jitter factor in [0.0, 1.0] or
\* NaN: a NaN jitter factor makes the blend and the product NaN
Jittered(base, jf, r) ==
    IF jf.nan THEN NaN
    ELSE [nan |-> FALSE, neg |-> FALSE, v |-> F64Mul(base, JitterBlend(jf.v, r))]

\* `as u64` of an f64 that is not negative: NaN becomes 0
as_u64(x) == IF x.nan THEN U64Zero ELSE f64_as_u64(x.v)

\* let jitter_factor = self.jitter_factor.clamp(0.0, 1.0); ...
\* let jittered = base * jitter_blend; Some(jittered as u64)
JitteredAsU64(base, jitter_factor, r) == as_u64(Jittered(base, clamp01(jitter_factor), r))

\* the random scalars rng.random_range(0.0..=1.0) may draw
RandomScalars == 0..J

-----------------------------------------------------------------------------
(* Backoff strategies (backoff.rs).  A strategy is a record                *)
(*   [kind, max_attempts, base_delay_ms, multiplier, max_delay_ms,         *)
(*    jitter_factor, retry_below, delay_below]                             *)
(* with u64 delays; kind "Constant" (base_delay_ms is its delay_ms),       *)
(* "Exponential"                                                           *)
(* (multiplier is a numerator over 2), "Fibonacci", or "Custom": an        *)
(* implementation of the BackoffStrategy trait by the caller, with         *)
(* should_retry(a) = a < retry_below and delay(a) = Some(base_delay_ms)    *)
(* for a < delay_below, None otherwise.                                    *)

ConstantBackoff(delay_ms, maxA, jf) ==
    [kind |-> "Constant", max_attempts |-> maxA, base_delay_ms |-> delay_ms,
     multiplier |-> 2, max_delay_ms |-> U64Zero, jitter_factor |-> jf,
     retry_below |-> 0, delay_below |-> 0]

ExponentialBackoff(base, mult, maxDelay, maxA, jf) ==
    [kind |-> "Exponential", max_attempts |-> maxA, base_delay_ms |-> base,
     multiplier |-> mult, max_delay_ms |-> maxDelay, jitter_factor |-> jf,
     retry_below |-> 0, delay_below |-> 0]

FibonacciBackoff(base, maxDelay, maxA, jf) ==
    [kind |-> "Fibonacci", max_attempts |-> maxA, base_delay_ms |-> base,
     multiplier |-> 2, max_delay_ms |-> maxDelay, jitter_factor |-> jf,
     retry_below |-> 0, delay_below |-> 0]

CustomBackoff(delay_ms, maxA, retryBelow, delayBelow) ==
    [kind |-> "Custom", max_attempts |-> maxA, base_delay_ms |-> delay_ms,
     multiplier |-> 2, max_delay_ms |-> U64Zero, jitter_factor |-> F64(0),
     retry_below |-> retryBelow, delay_below |-> delayBelow]

BuiltIn(b) == b.kind \in {"Constant", "Exponential", "Fibonacci"}

\* enum BackoffPolicy { Exponential(..), Constant(..), Fibonacci(..) }
BackoffPolicy(b) == [kind |-> "Policy", variant |-> b.kind, policy |-> b]

\* FibonacciBackoff::fibonacci: k turns of the loop `for _ in 2..n` on the
\* pair <<a, b>> (the turns are split in two halves, the first evaluated
\* before the second, to bound the depth of the evaluation)
RECURSIVE FibLoop(_, _)
FibLoop(ab, k) ==
    IF k = 0 THEN ab
    ELSE IF k = 1 THEN <<ab[2], saturating_add_u64(ab[1], ab[2])>>
    ELSE CHOOSE res \in {FibLoop(half, k - k \div 2) :
                            half \in {FibLoop(ab, k \div 2)}} : TRUE

\* u64::wrapping_add
wrapping_add_u64(a, b) ==
    LET s1 == a[1] + b[1]
        s2 == a[2] + b[2] + s1 \div 65536
        s3 == a[3] + b[3] + s2 \div 65536
        s4 == a[4] + b[4] + s3 \div 65536
    IN  <<s1 % 65536, s2 % 65536, s3 % 65536, s4 % 65536>>

RECURSIVE FibLoopWrapping(_, _)
FibLoopWrapping(ab, k) ==
    IF k = 0 THEN ab
    ELSE IF k = 1 THEN <<ab[2], wrapping_add_u64(ab[1], ab[2])>>
    ELSE CHOOSE res \in {FibLoopWrapping(half, k - k \div 2) :
                            half \in {FibLoopWrapping(ab, k \div 2)}} : TRUE

\* a mutant of fibonacci: `a + b` of a release build, which wraps
fibonacci_Wrapping(n) ==
    IF n = 0 THEN U64Zero
    ELSE IF n <= 2 THEN U64(1)
    ELSE FibLoopWrapping(<<U64(1), U64(1)>>, n - 2)[2]

\* FibonacciBackoff::fibonacci
fibonacci(n) ==
    IF n = 0 THEN U64Zero
    ELSE IF n <= 2 THEN U64(1)
    ELSE FibLoop(<<U64(1), U64(1)>>, n - 2)[2]

\* ConstantBackoff::delay
ConstantDelay(b, a, r) ==
    IF a >= b.max_attempts THEN None
    ELSE Some(JitteredAsU64(u64_as_f64(b.base_delay_ms), b.jitter_factor, r))

\* self.multiplier, a numerator over 2
Multiplier(b) == [m |-> NatOfInt(b.multiplier), e |-> -1]

\* let capped = base_exponential.min(self.max_delay_ms as f64), for f64
\* operands
Capped(base_delay, multiplier, max_delay, a) ==
    LET exponent == saturating_dec_u8(a)
        base_exponential == F64Mul(base_delay, F64Powi(multiplier, exponent))
    IN  F64Min(base_exponential, max_delay)

\* ExponentialBackoff::delay
ExponentialDelay(b, a, r) ==
    IF a >= b.max_attempts THEN None
    ELSE LET capped == Capped(u64_as_f64(b.base_delay_ms), Multiplier(b),
                              u64_as_f64(b.max_delay_ms), a)
         IN  Some(JitteredAsU64(capped, b.jitter_factor, r))

\* let base = (base_delay * (fib as f64)).min(max_delay), for f64 operands
FibonacciBase(base_delay, max_delay, a) ==
    F64Min(F64Mul(base_delay, u64_as_f64(fibonacci(a))), max_delay)

\* FibonacciBackoff::delay
FibonacciDelay(b, a, r) ==
    IF a >= b.max_attempts THEN None
    ELSE LET base == FibonacciBase(u64_as_f64(b.base_delay_ms),
                                   u64_as_f64(b.max_delay_ms), a)
         IN  Some(JitteredAsU64(base, b.jitter_factor, r))

\* ExponentialBackoff::default().max_attempts(m): base 100 ms, multiplier
\* 2.0, cap 10 s, full jitter
ExponentialBackoffDefault(m) == ExponentialBackoff(U64(100), 4, U64(10000), m, F64(J))

\* no jitter, half jitter, full jitter
JitterFactors == {F64(0), F64(J \div 2), F64(J)}

\* 2^63 ms: two such delays exceed u64::MAX
TwoTo63 == <<0, 0, 0, 32768>>

\* the strategies of Spec
Strategies ==
    {ConstantBackoff(U64(500), m, jf) : m \in 0..MaxAttemptsBound, jf \in JitterFactors}
    \cup {ConstantBackoff(TwoTo63, MaxAttemptsBound, F64(0))}
    \cup {ExponentialBackoff(U64(100), 4, U64(10000), m, F64(0)) : m \in 0..MaxAttemptsBound}
    \cup {ExponentialBackoff(U64(100), 3, U64(200), m, F64(J)) : m \in 0..MaxAttemptsBound}
    \cup {ExponentialBackoffDefault(m) : m \in 2..MaxAttemptsBound}
    \cup {FibonacciBackoff(U64(100), U64(10000), m, F64(0)) : m \in 0..MaxAttemptsBound}
    \cup {CustomBackoff(U64(10), MaxAttemptsBound, rb, db) :
              rb \in 0..MaxAttemptsBound, db \in {0, MaxAttemptsBound}}
    \cup {CustomBackoff(U64(10), 0, MaxAttemptsBound, MaxAttemptsBound)}

\* a mutant of BackoffPolicyDelay: the Fibonacci variant is handed to the
\* exponential formula
BackoffPolicyDelay_Misdispatch(p, a, r) ==
    CASE p.variant = "Exponential" -> ExponentialDelay(p.policy, a, r)
      [] p.variant = "Constant" -> ConstantDelay(p.policy, a, r)
      [] p.variant = "Fibonacci" -> ExponentialDelay(p.policy, a, r)

\* <BackoffPolicy as BackoffStrategy>::delay
BackoffPolicyDelay(p, a, r) ==
    CASE p.variant = "Exponential" -> ExponentialDelay(p.policy, a, r)
      [] p.variant = "Constant" -> ConstantDelay(p.policy, a, r)
      [] p.variant = "Fibonacci" -> FibonacciDelay(p.policy, a, r)

\* BackoffStrategy::delay, computed
ComputeDelay(b, a, r) ==
    CASE b.kind = "Constant" -> ConstantDelay(b, a, r)
      [] b.kind = "Policy" -> BackoffPolicyDelay(b, a, r)
      [] b.kind = "Exponential" -> ExponentialDelay(b, a, r)
      [] b.kind = "Fibonacci" -> FibonacciDelay(b, a, r)
      [] b.kind = "Custom" ->
            IF a < b.delay_below THEN Some(b.base_delay_ms) ELSE None

\* the delays of the strategies of Spec, computed once
DelayMemo ==
    [b \in Strategies, a \in 0..MaxAttemptsBound, r \in RandomScalars |->
        ComputeDelay(b, a, r)]

\* BackoffStrategy::delay
delay(b, a, r) ==
    IF b \in Strategies /\ a \in 0..MaxAttemptsBound /\ r \in RandomScalars
    THEN DelayMemo[b, a, r]
    ELSE ComputeDelay(b, a, r)

\* a mutant of BuiltInShouldRetry: `attempt <= self.max_attempts`
BuiltInShouldRetry_Le(b, a) == a <= b.max_attempts

\* should_retry of ExponentialBackoff, ConstantBackoff and FibonacciBackoff:
\* attempt < self.max_attempts
BuiltInShouldRetry(b, a) == a < b.max_attempts

\* BackoffStrategy::should_retry
should_retry(b, a) ==
    CASE b.kind = "Custom" -> a < b.retry_below
      [] b.kind = "Policy" -> BuiltInShouldRetry(b.policy, a)
      [] OTHER -> BuiltInShouldRetry(b, a)

\* BackoffStrategy::max_attempts
MaxAttemptsOf(b) == IF b.kind = "Policy" THEN b.policy.max_attempts ELSE b.max_attempts

-----------------------------------------------------------------------------
(* The jitter factor given by the caller, Policy (core/src/lib.rs) and the  *)
(* host binding (ffi/src/lib.rs), whose delays are f64 seconds.            *)

\* ExponentialBackoff::jitter_factor, ConstantBackoff::jitter_factor,
\* FibonacciBackoff::jitter_factor: self.jitter_factor = factor.clamp(0.0, 1.0)
jitter_factor(b, factor) == [b EXCEPT !.jitter_factor = clamp01(factor)]

\* the public field assigned: strategy.jitter_factor = factor
WithJitterField(b, factor) == [b EXCEPT !.jitter_factor = factor]

\* normalize_jitter
normalize_jitter(jf) ==
    IF jf.nan THEN [nan |-> FALSE, neg |-> FALSE, v |-> F64One] ELSE clamp01(jf)

\* struct Policy
Policy(maxA, base, mult, maxDelay) ==
    [max_attempts |-> maxA, base_delay_ms |-> base, multiplier |-> mult,
     max_delay_ms |-> maxDelay]

\* Policy::calculate_delay_with_rng
calculate_delay_with_rng(policy, a, jf, r) ==
    LET normalized == IF jf.nan THEN [nan |-> FALSE, neg |-> FALSE, v |-> F64One]
                      ELSE clamp01(jf)
        capped == Capped(u64_as_f64(policy.base_delay_ms), Multiplier(policy),
                         u64_as_f64(policy.max_delay_ms), a)
    IN  as_u64(Jittered(capped, normalized, r))

\* let attempt_u8 = attempt.clamp(1, 255) as u8
attempt_u8(a) == Max(1, Min(a, U8Max))

\* apply_jitter, with the scalar r the thread-local RNG draws
apply_jitter(base, jf, r) == Jittered(base, jf, r)

\* calculate_delay_exponential
calculate_delay_exponential(a, base_delay, multiplier, max_delay, jf, r) ==
    apply_jitter(Capped(base_delay, multiplier, max_delay, attempt_u8(a)),
                 normalize_jitter(jf), r)

\* calculate_delay_constant
calculate_delay_constant(a, delay_s, jf, r) == apply_jitter(delay_s, normalize_jitter(jf), r)

\* fibonacci of the FFI crate, a copy of FibonacciBackoff::fibonacci
ffi_fibonacci(n) ==
    IF n = 0 THEN U64Zero
    ELSE IF n <= 2 THEN U64(1)
    ELSE FibLoop(<<U64(1), U64(1)>>, n - 2)[2]

\* calculate_delay_fibonacci
calculate_delay_fibonacci(a, base_delay, max_delay, jf, r) ==
    apply_jitter(FibonacciBase(base_delay, max_delay, attempt_u8(a)),
                 normalize_jitter(jf), r)

\* the f64 `jittered` of the strategy's delay, before `jittered as u64`
JitteredOf(b, a, r) ==
    LET base == CASE b.kind = "Constant" -> u64_as_f64(b.base_delay_ms)
                  [] b.kind = "Exponential" ->
                        Capped(u64_as_f64(b.base_delay_ms), Multiplier(b),
                               u64_as_f64(b.max_delay_ms), a)
                  [] b.kind = "Fibonacci" ->
                        FibonacciBase(u64_as_f64(b.base_delay_ms),
                                      u64_as_f64(b.max_delay_ms), a)
    IN  Jittered(base, clamp01(b.jitter_factor), r)

\* the host binding's function for the strategy's kind, given the
\* strategy's parameters as f64
HostDelay(b, a, jf, r) ==
    CASE b.kind = "Constant" ->
            calculate_delay_constant(a, u64_as_f64(b.base_delay_ms), jf, r)
      [] b.kind = "Exponential" ->
            calculate_delay_exponential(a, u64_as_f64(b.base_delay_ms), Multiplier(b),
                                        u64_as_f64(b.max_delay_ms), jf, r)
      [] b.kind = "Fibonacci" ->
            calculate_delay_fibonacci(a, u64_as_f64(b.base_delay_ms),
                                      u64_as_f64(b.max_delay_ms), jf, r)

\* the Policy with the parameters of an ExponentialBackoff
PolicyOf(b) == Policy(b.max_attempts, b.base_delay_ms, b.multiplier, b.max_delay_ms)

-----------------------------------------------------------------------------
(* The builder and the values the engine returns (retry.rs).               *)

Errors == {"e1", "e2"}          \* failure causes E of the operation
Values == {"v1", "v2"}          \* success values T of the operation
CallbackIds == {"c1"}           \* closures given to notify / on_success / on_failure
\* `when` predicates, each the set of the errors it accepts
Predicates == {{}, {"e1"}}

\* a mutant of RetryErrorNew: the attempt is reported 0-indexed
RetryErrorNew_ZeroIndexed(kind, attempts, maxA, cumulative, cause) ==
    [kind |-> kind, attempts |-> attempts - 1, max_attempts |-> maxA,
     cumulative_delay_ms |-> cumulative, cause |-> cause]

\* RetryError::new
RetryErrorNew(kind, attempts, maxA, cumulative, cause) ==
    [kind |-> kind, attempts |-> attempts, max_attempts |-> maxA,
     cumulative_delay_ms |-> cumulative, cause |-> cause]

\* RetryOutcome::new
RetryOutcomeNew(value, attempts, cumulative) ==
    [value |-> value, attempts |-> attempts, cumulative_delay_ms |-> cumulative]

\* RetryContext { attempt, next_delay_ms, cumulative_delay_ms, error }
RetryContext(a, next_delay, cumulative, error) ==
    [attempt |-> a, next_delay_ms |-> next_delay,
     cumulative_delay_ms |-> cumulative, error |-> error]

\* The operation: an FnMut closure, which returns script[i] at its i-th
\* invocation and `rest` at every invocation after the script's end.
Operation(script, rest) == [script |-> script, rest |-> rest]

\* the events of the trace
OpEvent(res) == [ev |-> "operation", result |-> res]
WhenEvent(e, verdict) == [ev |-> "when", error |-> e, verdict |-> verdict]
ShouldRetryEvent(a, verdict) == [ev |-> "should_retry", attempt |-> a, verdict |-> verdict]
DelayEvent(a, d) == [ev |-> "delay", attempt |-> a, result |-> d]
NotifyEvent(cb, ctx) == [ev |-> "notify", cb |-> cb, ctx |-> ctx]
SleepEvent(ms) == [ev |-> "sleep_ms", ms |-> ms]
OnSuccessEvent(cb, ctx) == [ev |-> "on_success", cb |-> cb, ctx |-> ctx]
OnFailureEvent(cb, err) == [ev |-> "on_failure", cb |-> cb, err |-> err]

EventsOf(kind) == SelectSeq(trace, LAMBDA x : x.ev = kind)

\* the result of the i-th invocation of the closure
ResultAt(op, i) == IF i <= Len(op.script) THEN op.script[i] ELSE op.rest

\* (self.operation)(): the result of the next invocation
NextResult == ResultAt(operation, invocations + 1)

-----------------------------------------------------------------------------
(* The builder's setters.                                                  *)

\* a setter call as setter_calls records it
SetterCall(fn, arg) == [fn |-> fn, arg |-> arg]

\* a mutant of SetWhen: the rebuilt builder loses the callbacks set before
SetWhen_DropsCallbacks(p) ==
    /\ pc = "builder"
    /\ when' = Some(p)
    /\ notify' = None
    /\ on_success' = None
    /\ on_failure' = None
    /\ UNCHANGED <<operation, invocations, backoff, pc,
                   attempt, max_attempts, cumulative_delay_ms, trace, result,
                   first, probe, global_registry>>

\* RetryBuilder::when
SetWhen(p) ==
    /\ pc = "builder"
    /\ when' = Some(p)
    /\ UNCHANGED <<operation, invocations, backoff, notify, on_success, on_failure, pc,
                   attempt, max_attempts, cumulative_delay_ms, trace, result,
                   first, probe, global_registry>>

\* a mutant of SetNotify: a callback already set is kept
SetNotify_KeepFirst(c) ==
    /\ pc = "builder"
    /\ notify' = IF notify = None THEN Some(c) ELSE notify
    /\ UNCHANGED <<operation, invocations, backoff, when, on_success, on_failure, pc,
                   attempt, max_attempts, cumulative_delay_ms, trace, result,
                   first, probe, global_registry>>

\* RetryBuilder::notify
SetNotify(c) ==
    /\ pc = "builder"
    /\ notify' = Some(c)
    /\ UNCHANGED <<operation, invocations, backoff, when, on_success, on_failure, pc,
                   attempt, max_attempts, cumulative_delay_ms, trace, result,
                   first, probe, global_registry>>

\* RetryBuilder::on_success
SetOnSuccess(c) ==
    /\ pc = "builder"
    /\ on_success' = Some(c)
    /\ UNCHANGED <<operation, invocations, backoff, when, notify, on_failure, pc,
                   attempt, max_attempts, cumulative_delay_ms, trace, result,
                   first, probe, global_registry>>

\* RetryBuilder::on_failure
SetOnFailure(c) ==
    /\ pc = "builder"
    /\ on_failure' = Some(c)
    /\ UNCHANGED <<operation, invocations, backoff, when, notify, on_success, pc,
                   attempt, max_attempts, cumulative_delay_ms, trace, result,
                   first, probe, global_registry>>

\* the setters, not recorded
When(p) == SetWhen(p) /\ UNCHANGED setter_calls
Notify(c) == SetNotify(c) /\ UNCHANGED setter_calls
OnSuccess(c) == SetOnSuccess(c) /\ UNCHANGED setter_calls
OnFailure(c) == SetOnFailure(c) /\ UNCHANGED setter_calls

\* the setters, each call recorded in setter_calls
WhenRecorded(p) ==
    /\ Len(setter_calls) < MaxSetterCalls
    /\ SetWhen(p)
    /\ setter_calls' = Append(setter_calls, SetterCall("when", p))

NotifyRecorded(c) ==
    /\ Len(setter_calls) < MaxSetterCalls
    /\ SetNotify(c)
    /\ setter_calls' = Append(setter_calls, SetterCall("notify", c))

OnSuccessRecorded(c) ==
    /\ Len(setter_calls) < MaxSetterCalls
    /\ SetOnSuccess(c)
    /\ setter_calls' = Append(setter_calls, SetterCall("on_success", c))

OnFailureRecorded(c) ==
    /\ Len(setter_calls) < MaxSetterCalls
    /\ SetOnFailure(c)
    /\ setter_calls' = Append(setter_calls, SetterCall("on_failure", c))

-----------------------------------------------------------------------------
(* call_with_sleeper: its prologue, and one action for each path through   *)
(* one iteration of its loop.                                              *)

builder == <<operation, backoff, when, notify, on_success, on_failure>>

\* a mutant of Call: the attempt counter starts at 0
Call_ZeroBased ==
    /\ pc = "builder"
    /\ pc' = "loop"
    /\ attempt' = 0
    /\ max_attempts' = MaxAttemptsOf(backoff)
    /\ cumulative_delay_ms' = U64Zero
    /\ UNCHANGED <<builder, invocations, trace, result, first, probe,
                   setter_calls, global_registry>>

\* a mutant of Call: the counters of an earlier call are kept
Call_Stale ==
    /\ pc = "builder"
    /\ pc' = "loop"
    /\ attempt' = IF attempt = 0 THEN 1 ELSE attempt
    /\ max_attempts' = MaxAttemptsOf(backoff)
    /\ cumulative_delay_ms' = cumulative_delay_ms
    /\ UNCHANGED <<builder, invocations, trace, result, first, probe,
                   setter_calls, global_registry>>

\* let mut attempt = 1u8; let max_attempts = self.backoff.max_attempts();
\* let mut cumulative_delay_ms: u64 = 0;
Call ==
    /\ pc = "builder"
    /\ pc' = "loop"
    /\ attempt' = 1
    /\ max_attempts' = MaxAttemptsOf(backoff)
    /\ cumulative_delay_ms' = U64Zero
    /\ UNCHANGED <<builder, invocations, trace, result, first, probe,
                   setter_calls, global_registry>>

\* a mutant of PredicateRejects: without a predicate no failure is retryable
PredicateRejects_Unset(error) ==
    IF IsSome(when) THEN error \notin Unwrap(when) ELSE TRUE

\* a mutant of PredicateRejects: the predicate is consulted only after the
\* strategy has allowed a retry
PredicateRejects_AfterStrategy(error) ==
    should_retry(backoff, attempt) /\ IsSome(when) /\ error \notin Unwrap(when)

\* if let Some(ref predicate) = self.when && !predicate(&error)
PredicateRejects(error) == IsSome(when) /\ error \notin Unwrap(when)

\* the call of the predicate, when one is configured
WhenEvents(error) ==
    IF IsSome(when) THEN <<WhenEvent(error, error \in Unwrap(when))>> ELSE <<>>

\* a mutant of OnSuccessEvents: the context carries the next attempt
OnSuccessEvents_NextAttempt ==
    IF IsSome(on_success)
    THEN <<OnSuccessEvent(Unwrap(on_success),
                          RetryContext(saturating_inc_u8(attempt), None,
                                       cumulative_delay_ms, None))>>
    ELSE <<>>

\* if let Some(ref mut callback) = self.on_success { callback(&ctx) }
OnSuccessEvents ==
    IF IsSome(on_success)
    THEN <<OnSuccessEvent(Unwrap(on_success),
                          RetryContext(attempt, None, cumulative_delay_ms, None))>>
    ELSE <<>>

\* a mutant of OnFailureEvents: the callback also runs when the error is
\* built
OnFailureEvents_Twice(retry_error) ==
    IF IsSome(on_failure)
    THEN <<OnFailureEvent(Unwrap(on_failure), retry_error),
           OnFailureEvent(Unwrap(on_failure), retry_error)>>
    ELSE <<>>

\* if let Some(ref mut callback) = self.on_failure { callback(&retry_error) }
OnFailureEvents(retry_error) ==
    IF IsSome(on_failure)
    THEN <<OnFailureEvent(Unwrap(on_failure), retry_error)>>
    ELSE <<>>

\* a mutant of NotifyEvents: the context carries the cumulative delay after
\* the sleep
NotifyEvents_AfterSleep(error, delay_ms) ==
    IF IsSome(notify)
    THEN <<NotifyEvent(Unwrap(notify),
                       RetryContext(attempt, Some(delay_ms),
                                    saturating_add_u64(cumulative_delay_ms, delay_ms),
                                    Some(error)))>>
    ELSE <<>>

\* if let Some(ref mut notify) = self.notify { notify(&ctx) }
NotifyEvents(error, delay_ms) ==
    IF IsSome(notify)
    THEN <<NotifyEvent(Unwrap(notify),
                       RetryContext(attempt, Some(delay_ms), cumulative_delay_ms,
                                    Some(error)))>>
    ELSE <<>>

\* a mutant of RetryEvents: the sleeper is invoked twice
RetryEvents_DoubleSleep(error, delay_ms) ==
    NotifyEvents(error, delay_ms) \o <<SleepEvent(delay_ms), SleepEvent(delay_ms)>>

\* a mutant of RetryEvents: the sleep comes before the notification
RetryEvents_SleepFirst(error, delay_ms) ==
    <<SleepEvent(delay_ms)>> \o NotifyEvents(error, delay_ms)

\* notify if the callback is set, then sleeper.sleep_ms(delay_ms)
RetryEvents(error, delay_ms) ==
    NotifyEvents(error, delay_ms) \o <<SleepEvent(delay_ms)>>

\* a mutant of AddDelay: the sum wraps around at 2^64
AddDelay_Wrapping(cumulative, delay_ms) ==
    U64OfNat(NatAdd(NatOfU64(cumulative), NatOfU64(delay_ms)))

\* a mutant of AddDelay: only the last delay is kept
AddDelay_LastOnly(cumulative, delay_ms) == delay_ms

\* cumulative_delay_ms = cumulative_delay_ms.saturating_add(delay_ms)
AddDelay(cumulative, delay_ms) == saturating_add_u64(cumulative, delay_ms)

\* a mutant of Cause: the cause of the first failure is kept
Cause_First(error) ==
    IF invocations = 0 THEN Some(error) ELSE Some(ResultAt(operation, 1).val)

\* the cause of the terminal error: Some(error)
Cause(error) == Some(error)

\* a mutant of KindWhenDeclined: the kind of the predicate's branch
KindWhenDeclined_Rejected == "PredicateRejected"

\* the kind of the error when the strategy declines: RetryErrorKind::Exhausted
KindWhenDeclined == "Exhausted"

\* return Err(retry_error), after the failure callback
ReturnErr(events, retry_error) ==
    /\ trace' = trace \o events \o OnFailureEvents(retry_error)
    /\ result' = Some(Err(retry_error))
    /\ pc' = "returned"
    /\ UNCHANGED <<builder, attempt, max_attempts, cumulative_delay_ms, first, probe,
                   setter_calls, global_registry>>

\* Ok(_value) => { on_success; return Ok(RetryOutcome::new(..)) }
AttemptOk ==
    /\ pc = "loop"
    /\ invocations < MaxInvocations
    /\ invocations' = invocations + 1
    /\ NextResult.ok
    /\ trace' = trace \o <<OpEvent(NextResult)>> \o OnSuccessEvents
    /\ result' = Some(Ok(RetryOutcomeNew(NextResult.val, attempt, cumulative_delay_ms)))
    /\ pc' = "returned"
    /\ UNCHANGED <<builder, attempt, max_attempts, cumulative_delay_ms, first, probe,
                   setter_calls, global_registry>>

\* Err(error), rejected by the predicate
AttemptPredicateRejected ==
    /\ pc = "loop"
    /\ invocations < MaxInvocations
    /\ invocations' = invocations + 1
    /\ ~NextResult.ok
    /\ LET error == NextResult.val
       IN  /\ PredicateRejects(error)
           /\ ReturnErr(<<OpEvent(NextResult)>> \o WhenEvents(error),
                        RetryErrorNew("PredicateRejected", attempt, max_attempts,
                                      cumulative_delay_ms, Cause(error)))

\* Err(error), and !self.backoff.should_retry(attempt)
AttemptExhausted ==
    /\ pc = "loop"
    /\ invocations < MaxInvocations
    /\ invocations' = invocations + 1
    /\ ~NextResult.ok
    /\ LET error == NextResult.val
       IN  /\ ~PredicateRejects(error)
           /\ ~should_retry(backoff, attempt)
           /\ ReturnErr(<<OpEvent(NextResult)>> \o WhenEvents(error)
                            \o <<ShouldRetryEvent(attempt, FALSE)>>,
                        RetryErrorNew(KindWhenDeclined, attempt, max_attempts,
                                      cumulative_delay_ms, Cause(error)))

\* a mutant of AttemptDelayNone: a delay of None is slept as a delay of 0 ms
AttemptDelayNone_Sleeps(r) ==
    /\ pc = "loop"
    /\ invocations < MaxInvocations
    /\ invocations' = invocations + 1
    /\ ~NextResult.ok
    /\ LET error == NextResult.val
       IN  /\ ~PredicateRejects(error)
           /\ should_retry(backoff, attempt)
           /\ delay(backoff, attempt, r) = None
           /\ trace' = trace \o <<OpEvent(NextResult)>> \o WhenEvents(error)
                             \o <<ShouldRetryEvent(attempt, TRUE),
                                  DelayEvent(attempt, None)>>
                             \o RetryEvents(error, U64Zero)
           /\ attempt' = saturating_inc_u8(attempt)
           /\ UNCHANGED <<builder, pc, max_attempts, cumulative_delay_ms, result, first,
                          probe, setter_calls, global_registry>>

\* Err(error), and self.backoff.delay(attempt, &mut rng) is None
AttemptDelayNone(r) ==
    /\ pc = "loop"
    /\ invocations < MaxInvocations
    /\ invocations' = invocations + 1
    /\ ~NextResult.ok
    /\ LET error == NextResult.val
       IN  /\ ~PredicateRejects(error)
           /\ should_retry(backoff, attempt)
           /\ delay(backoff, attempt, r) = None
           /\ ReturnErr(<<OpEvent(NextResult)>> \o WhenEvents(error)
                            \o <<ShouldRetryEvent(attempt, TRUE),
                                 DelayEvent(attempt, None)>>,
                        RetryErrorNew(KindWhenDeclined, attempt, max_attempts,
                                      cumulative_delay_ms, Cause(error)))

\* Err(error), and self.backoff.delay(attempt, &mut rng) is Some(delay_ms):
\* notify, sleep, add the delay, increment the attempt, loop
AttemptRetry(r) ==
    /\ pc = "loop"
    /\ invocations < MaxInvocations
    /\ invocations' = invocations + 1
    /\ ~NextResult.ok
    /\ LET error == NextResult.val
           d == delay(backoff, attempt, r)
       IN  /\ ~PredicateRejects(error)
           /\ should_retry(backoff, attempt)
           /\ IsSome(d)
           /\ trace' = trace \o <<OpEvent(NextResult)>> \o WhenEvents(error)
                             \o <<ShouldRetryEvent(attempt, TRUE),
                                  DelayEvent(attempt, d)>>
                             \o RetryEvents(error, Unwrap(d))
           /\ cumulative_delay_ms' = AddDelay(cumulative_delay_ms, Unwrap(d))
           /\ attempt' = saturating_inc_u8(attempt)
           /\ UNCHANGED <<builder, pc, max_attempts, result, first, probe,
                   setter_calls, global_registry>>

-----------------------------------------------------------------------------
(* Specifications.                                                         *)

\* n failures with the same cause
Failures(n, e) == [i \in 1..n |-> Err(e)]

\* the operations of Spec: up to MaxFailures failures with one cause, then a
\* success or a failure repeated for ever
Operations ==
    {Operation(Failures(n, e), rest) :
        n \in 0..MaxFailures, e \in Errors, rest \in {Ok("v1"), Err("e1"), Err("e2")}}
    \cup {Operation(<<>>, Ok("v2"))}

\* the global registry before its first use, and no thread using it
RegistryUnused ==
    /\ entries = <<>>
    /\ rwlock = [writers |-> {}, readers |-> {}]
    /\ threads = <<>>
    /\ history = <<>>

\* the builder returned by Retryable::retry
InitBuilder(ops, strategies) ==
    /\ operation \in ops
    /\ invocations = 0
    /\ backoff \in strategies
    /\ when = None
    /\ notify = None
    /\ on_success = None
    /\ on_failure = None
    /\ pc = "builder"
    /\ attempt = 0
    /\ max_attempts = 0
    /\ cumulative_delay_ms = U64Zero
    /\ trace = <<>>
    /\ result = None
    /\ first = None
    /\ probe = None
    /\ setter_calls = <<>>
    /\ RegistryUnused

Init == InitBuilder(Operations, Strategies)

Next ==
    \/ \E p \in Predicates : When(p)
    \/ \E c \in CallbackIds : Notify(c)
    \/ \E c \in CallbackIds : OnSuccess(c)
    \/ \E c \in CallbackIds : OnFailure(c)
    \/ Call
    \/ AttemptOk
    \/ AttemptPredicateRejected
    \/ AttemptExhausted
    \/ \E r \in RandomScalars : AttemptDelayNone(r)
    \/ \E r \in RandomScalars : AttemptRetry(r)

Spec == Init /\ [][Next]_vars

\* one turn of the loop of call_with_sleeper
LoopTurn ==
    \/ AttemptOk
    \/ AttemptPredicateRejected
    \/ AttemptExhausted
    \/ \E r \in RandomScalars : AttemptDelayNone(r)
    \/ \E r \in RandomScalars : AttemptRetry(r)

\* Spec with a loop in which every invocation of the operation, of a
\* callback and of the sleeper returns: a turn that can be taken is taken
SpecFair == Init /\ [][Next]_vars /\ WF_vars(LoopTurn)

\* A builder on which setters are called again: two callbacks to tell
\* apart, and every setter call recorded.
SetterCallbacks == {"c1", "c2"}

SetterOperations ==
    {Operation(<<>>, Ok("v1")), Operation(<<>>, Err("e1")),
     Operation(Failures(1, "e1"), Ok("v1"))}

SetterStrategies ==
    {ConstantBackoff(U64(500), 2, F64(0)),
     CustomBackoff(U64(10), MaxAttemptsBound, MaxAttemptsBound, 0),
     CustomBackoff(U64(10), MaxAttemptsBound, MaxAttemptsBound, 2)}

InitSetters == InitBuilder(SetterOperations, SetterStrategies)

NextSetters ==
    \/ \E p \in Predicates : WhenRecorded(p)
    \/ \E c \in SetterCallbacks : NotifyRecorded(c)
    \/ \E c \in SetterCallbacks : OnSuccessRecorded(c)
    \/ \E c \in SetterCallbacks : OnFailureRecorded(c)
    \/ Call
    \/ AttemptOk
    \/ AttemptPredicateRejected
    \/ AttemptExhausted
    \/ \E r \in RandomScalars : AttemptDelayNone(r)
    \/ \E r \in RandomScalars : AttemptRetry(r)

SpecSetters == InitSetters /\ [][NextSetters]_vars

\* A custom strategy that never declines (should_retry and delay accept every
\* u8 attempt), and operations that fail more often than the attempt
\* counter can count.
LongStrategies == {CustomBackoff(U64(10), MaxAttemptsBound, U8Max + 1, U8Max + 1)}

LongOperations ==
    {Operation(<<>>, Err("e1")),
     Operation(Failures(U8Max + 1, "e1"), Err("e2")),
     Operation(Failures(U8Max + 1, "e1"), Ok("v1"))}

InitLong ==
    \/ InitBuilder(Operations, Strategies)
    \/ InitBuilder(LongOperations, LongStrategies)

SpecLong == InitLong /\ [][Next]_vars

-----------------------------------------------------------------------------
(* Two calls: after a call has returned, Retryable::retry builds a new      *)
(* builder for the same operation (a pure one: it returns the same sequence *)
(* of results again) with the same strategy.  call_with_sleeper consumes    *)
(* the builder, so the predicate and the callbacks are set anew; its locals *)
(* are whatever the earlier call left.                                      *)

RetryAgain ==
    /\ pc = "returned"
    /\ first = None
    /\ first' = Some([when |-> when, result |-> Unwrap(result)])
    /\ pc' = "builder"
    /\ invocations' = 0
    /\ when' = None
    /\ notify' = None
    /\ on_success' = None
    /\ on_failure' = None
    /\ trace' = <<>>
    /\ result' = None
    /\ UNCHANGED <<operation, backoff, attempt, max_attempts, cumulative_delay_ms, probe,
                   setter_calls, global_registry>>

NextTwice == Next \/ RetryAgain

\* the strategies without jitter: those the two calls are compared for
InitTwice ==
    InitBuilder(Operations, {b \in Strategies : BitLen(clamp01(b.jitter_factor).v.m) = 0})

SpecTwice == InitTwice /\ [][NextTwice]_vars

-----------------------------------------------------------------------------
(* The strategies used directly: one call of should_retry, delay and        *)
(* max_attempts of a strategy, for an attempt and a random draw.            *)

\* 2^53 + k, which an f64 holds only for an even k (k < 2^16)
TwoTo53Plus(k) == <<k, 0, 0, 32>>

ProbeMaxAttempts == {0, 1, MaxAttemptsBound, U8Max}

\* attempts at which the Fibonacci numbers and the powers of 2 pass 2^53 and
\* 2^64, and the last attempts a u8 counts
LargeAttempts == {54, 55, 79, 80, 94, U8Max - 1, U8Max}

ProbeAttempts == 0..(MaxAttemptsBound + 1) \cup LargeAttempts

ProbeBuiltIns ==
    {ConstantBackoff(d, m, jf) :
        d \in {U64(500), TwoTo53Plus(3), U64MAX}, m \in ProbeMaxAttempts, jf \in JitterFactors}
    \cup {ConstantBackoff(U64(90), m, ThreeTenths) : m \in ProbeMaxAttempts}
    \cup {ExponentialBackoff(U64(100), mult, U64(10000), m, jf) :
              mult \in {3, 4}, m \in ProbeMaxAttempts, jf \in JitterFactors}
    \cup {ExponentialBackoff(TwoTo53Plus(1), 2, U64MAX, m, F64(0)) : m \in ProbeMaxAttempts}
    \cup {ExponentialBackoff(U64(1), 4, TwoTo53Plus(3), m, F64(0)) : m \in ProbeMaxAttempts}
    \cup {FibonacciBackoff(U64(100), U64(10000), m, jf) :
              m \in ProbeMaxAttempts, jf \in JitterFactors}
    \cup {FibonacciBackoff(U64(1), U64MAX, m, F64(0)) : m \in ProbeMaxAttempts}

ProbeStrategies == ProbeBuiltIns \cup {BackoffPolicy(b) : b \in ProbeBuiltIns}

\* strategy.should_retry(attempt), strategy.delay(attempt, rng),
\* strategy.max_attempts(): the methods take &self and keep no state, so
\* one use from the initial state stands for any use
Probe(b, a, r) ==
    /\ probe = None
    /\ probe' = Some([strategy |-> b, attempt |-> a, random_scalar |-> r,
                      should_retry |-> should_retry(b, a),
                      delay |-> delay(b, a, r),
                      max_attempts |-> MaxAttemptsOf(b)])
    /\ UNCHANGED <<builder, invocations, pc, attempt, max_attempts,
                   cumulative_delay_ms, trace, result, first,
                   setter_calls, global_registry>>

InitBackoff ==
    InitBuilder({Operation(<<>>, Ok("v1"))}, {ConstantBackoff(U64(500), 1, F64(0))})

NextBackoff ==
    \E b \in ProbeStrategies, a \in ProbeAttempts, r \in RandomScalars : Probe(b, a, r)

SpecBackoff == InitBackoff /\ [][NextBackoff]_vars

\* BackoffPolicy::max_attempts, the inherent method: the field of the variant
BackoffPolicyMaxAttempts(p) == p.policy.max_attempts

\* BackoffPolicy::from(s) for the strategies a policy can wrap
PolicyBuiltIns ==
    {ConstantBackoff(U64(500), m, F64(J \div 2)) : m \in 0..MaxAttemptsBound}
    \cup {ExponentialBackoffDefault(m) : m \in 1..MaxAttemptsBound}
    \cup {FibonacciBackoff(U64(100), U64(10000), m, F64(0)) : m \in 1..MaxAttemptsBound}

PolicyStrategies == {BackoffPolicy(b) : b \in PolicyBuiltIns}

\* operation.retry(BackoffPolicy::from(s))
InitPolicy == InitBuilder(Operations, PolicyStrategies)

\* the methods of the policy of the builder, called on it before the run
ProbePolicy(a, r) == pc = "builder" /\ Probe(backoff, a, r)

\* a retry run under a BackoffPolicy, or one use of the policy's methods
NextPolicy ==
    \/ \E a \in ProbeAttempts, r \in RandomScalars : ProbePolicy(a, r)
    \/ probe = None /\ Call
    \/ probe = None /\ AttemptOk
    \/ probe = None /\ AttemptExhausted
    \/ probe = None /\ \E r \in RandomScalars : AttemptRetry(r)

SpecPolicy == InitPolicy /\ [][NextPolicy]_vars

\* the two copies of the helper
FibonacciCopies == {"core", "ffi"}

\* the helper of a copy
FibonacciOf(copy, n) == IF copy = "core" THEN fibonacci(n) ELSE ffi_fibonacci(n)

\* fibonacci(n) of one copy, for any n: u8
ProbeFibonacci(copy, n) ==
    /\ probe = None
    /\ probe' = Some([fn |-> "fibonacci", copy |-> copy, n |-> n,
                      value |-> FibonacciOf(copy, n)])
    /\ UNCHANGED <<builder, invocations, pc, attempt, max_attempts,
                   cumulative_delay_ms, trace, result, first,
                   setter_calls, global_registry>>

NextFibonacci == \E copy \in FibonacciCopies, n \in 0..U8Max : ProbeFibonacci(copy, n)

SpecFibonacci == InitBackoff /\ [][NextFibonacci]_vars

-----------------------------------------------------------------------------
(* The delay functions given any jitter factor: the strategies (through    *)
(* the setter and through the public field), Policy and the host binding,  *)
(* for the same parameters, attempt and random draw.                       *)

\* -0.5, -999.0, 0.0, 0.5, 1.0, 2.0, 999.0, 0.3 and NaN
RawJitters ==
    {NegF64(J \div 2), [nan |-> FALSE, neg |-> TRUE, v |-> [m |-> NatOfInt(999), e |-> 0]],
     F64(0), F64(J \div 2), F64(J), F64(2 * J),
     [nan |-> FALSE, neg |-> FALSE, v |-> [m |-> NatOfInt(999), e |-> 0]],
     ThreeTenths, NaN}

JitterStrategies ==
    {ConstantBackoff(U64(500), m, F64(0)) : m \in {MaxAttemptsBound, U8Max}}
    \cup {ExponentialBackoff(U64(100), 4, U64(10000), m, F64(0)) : m \in {MaxAttemptsBound, U8Max}}
    \cup {ExponentialBackoff(U64(1000), 2, U64(10000), m, F64(0)) : m \in {MaxAttemptsBound, U8Max}}
    \cup {FibonacciBackoff(U64(100), U64(10000), m, F64(0)) : m \in {MaxAttemptsBound, U8Max}}

JitterAttempts == 0..(MaxAttemptsBound + 1) \cup {U8Max - 1, U8Max}

ProbeJitter(b, jf, a, r) ==
    /\ probe = None
    /\ probe' = Some([strategy |-> b, jitter_factor |-> jf, attempt |-> a,
                      random_scalar |-> r,
                      by_setter |-> ComputeDelay(jitter_factor(b, jf), a, r),
                      by_field |-> ComputeDelay(WithJitterField(b, jf), a, r),
                      jittered |-> JitteredOf(WithJitterField(b, jf), a, r),
                      policy |-> IF b.kind = "Exponential"
                                 THEN Some(calculate_delay_with_rng(PolicyOf(b), a, jf, r))
                                 ELSE None,
                      host |-> HostDelay(b, a, jf, r)])
    /\ UNCHANGED <<builder, invocations, pc, attempt, max_attempts,
                   cumulative_delay_ms, trace, result, first,
                   setter_calls, global_registry>>

NextJitter ==
    \E b \in JitterStrategies, jf \in RawJitters, a \in JitterAttempts,
       r \in RandomScalars : ProbeJitter(b, jf, a, r)

SpecJitter == InitBackoff /\ [][NextJitter]_vars

-----------------------------------------------------------------------------
(* PolicyRegistry (policy.rs): entries is a Vec<(String, BackoffPolicy)>    *)
(* searched from the front.                                                *)

\* the names and the policies registered
PolicyNames == {"api", "default", "workers"}

RegistryPolicies ==
    {BackoffPolicy(ExponentialBackoffDefault(m)) : m \in {2, 3}}

\* (String, BackoffPolicy)
Entry(name, policy) == <<name, policy>>

\* .iter().position(|(existing_name, _)| existing_name == name), the index
\* counted from 1; iter().find and iter_mut().find stop at the same entry
position(es, name) ==
    IF \E i \in 1..Len(es) : es[i][1] = name
    THEN Some(CHOOSE i \in 1..Len(es) :
                 /\ es[i][1] = name
                 /\ \A j \in 1..(i - 1) : es[j][1] # name)
    ELSE None

\* register once the search has ended: the entry found is overwritten and
\* its policy returned, or a new entry is pushed
register_found(es, found, name, policy) ==
    IF IsSome(found)
    THEN [entries |-> [es EXCEPT ![Unwrap(found)] = Entry(es[Unwrap(found)][1], policy)],
          ret |-> Some(es[Unwrap(found)][2])]
    ELSE [entries |-> Append(es, Entry(name, policy)), ret |-> None]

\* a mutant of register: the entry is always pushed
register_AlwaysPush(es, name, policy) ==
    [entries |-> Append(es, Entry(name, policy)), ret |-> None]

\* PolicyRegistry::register
register(es, name, policy) == register_found(es, position(es, name), name, policy)

\* .map(|(_, policy)| *policy) on the entry found
get_found(es, found) ==
    IF IsSome(found) THEN Some(es[Unwrap(found)][2]) ELSE None

\* PolicyRegistry::get
get(es, name) == get_found(es, position(es, name))

\* Vec::swap_remove, its first write: the last entry is copied over the one
\* removed
swap_remove_copy(es, index) == [es EXCEPT ![index] = es[Len(es)]]

\* Vec::swap_remove, its second write: set_len(len - 1)
swap_remove_set_len(es) == SubSeq(es, 1, Len(es) - 1)

\* a mutant of swap_remove: the last entry is removed, whatever the index
swap_remove_Last(es, index) ==
    [entries |-> SubSeq(es, 1, Len(es) - 1), ret |-> es[Len(es)]]

\* Vec::swap_remove: the last entry takes the place of the one removed
swap_remove(es, index) ==
    [entries |-> swap_remove_set_len(swap_remove_copy(es, index)),
     ret |-> es[index]]

\* remove once the search has ended
remove_found(es, found) ==
    IF IsSome(found)
    THEN LET removed == swap_remove(es, Unwrap(found))
         IN  [entries |-> removed.entries, ret |-> Some(removed.ret[2])]
    ELSE [entries |-> es, ret |-> None]

\* PolicyRegistry::remove
remove(es, name) == remove_found(es, position(es, name))

\* PolicyRegistry::all
all(es) == es

\* PolicyRegistry::clear
clear(es) == <<>>

\* a call that changed, or could have changed, the registry
Mutation(op, name, policy) == [op |-> op, name |-> name, policy |-> policy]

\* a call in progress or returned: the thread's position in it, what it was
\* given, the entry its search found, what it returned, and the calls the
\* thread has still to make where it runs a fixed program
CallRecord(pc_, op, name, policy, found, ret) ==
    [pc |-> pc_, op |-> op, name |-> name, policy |-> policy, found |-> found, ret |-> ret,
     todo |-> <<>>]

\* a thread that is in no call
Idle == CallRecord("idle", "none", "", None, None, None)

\* no call of Retryable::retry yet
NotBuilt ==
    /\ invocations = 0
    /\ backoff = None
    /\ when = None
    /\ notify = None
    /\ on_success = None
    /\ on_failure = None
    /\ pc = "none"
    /\ attempt = 0
    /\ max_attempts = 0
    /\ cumulative_delay_ms = U64Zero
    /\ trace = <<>>
    /\ result = None
    /\ first = None
    /\ probe = None
    /\ setter_calls = <<>>

\* no builder: the retry engine is not in use
NoBuilder == operation = Operation(<<>>, Ok("v1")) /\ NotBuilt

retry_call == <<builder, invocations, pc, attempt, max_attempts, cumulative_delay_ms,
                trace, result, first, probe, setter_calls>>

\* a PolicyRegistry owned by one thread (&mut self): PolicyRegistry::new()
InitRegistry ==
    /\ NoBuilder
    /\ entries = <<>>
    /\ rwlock = [writers |-> {}, readers |-> {}]
    /\ threads = [t \in {"main"} |-> Idle]
    /\ history = <<>>

\* the owner's call has returned
OwnerReturns(op, name, policy, ret) ==
    threads' = [threads EXCEPT !["main"] = CallRecord("returned", op, name, policy, None, ret)]

RegistryRegister(name, policy) ==
    /\ Len(history) < MaxRegistryOps
    /\ entries' = register(entries, name, policy).entries
    /\ OwnerReturns("register", name, Some(policy), register(entries, name, policy).ret)
    /\ history' = Append(history, Mutation("register", name, Some(policy)))
    /\ UNCHANGED <<retry_call, rwlock>>

RegistryGet(name) ==
    /\ OwnerReturns("get", name, None, get(entries, name))
    /\ UNCHANGED <<retry_call, entries, rwlock, history>>

RegistryRemove(name) ==
    /\ Len(history) < MaxRegistryOps
    /\ entries' = remove(entries, name).entries
    /\ OwnerReturns("remove", name, None, remove(entries, name).ret)
    /\ history' = Append(history, Mutation("remove", name, None))
    /\ UNCHANGED <<retry_call, rwlock>>

RegistryAll ==
    /\ OwnerReturns("all", "", None, all(entries))
    /\ UNCHANGED <<retry_call, entries, rwlock, history>>

RegistryClear ==
    /\ Len(history) < MaxRegistryOps
    /\ entries' = clear(entries)
    /\ OwnerReturns("clear", "", None, None)
    /\ history' = Append(history, Mutation("clear", "", None))
    /\ UNCHANGED <<retry_call, rwlock>>

NextRegistry ==
    \/ \E name \in PolicyNames, policy \in RegistryPolicies : RegistryRegister(name, policy)
    \/ \E name \in PolicyNames : RegistryGet(name)
    \/ \E name \in PolicyNames : RegistryRemove(name)
    \/ RegistryAll
    \/ RegistryClear

SpecRegistry == InitRegistry /\ [][NextRegistry]_vars

-----------------------------------------------------------------------------
(* The global registry (policy.rs): GLOBAL_POLICIES, a PolicyRegistry in a  *)
(* RwLock shared by the threads of the process.  A call takes the guard,   *)
(* runs the method of PolicyRegistry on the entries, and drops the guard   *)
(* when it returns; the method's search and its writes are separate steps. *)

GlobalThreads == {"t1", "t2"}

GlobalNames == {"default", "workers"}

Writes == {"register", "remove", "clear"}

\* a mutant of write: the guard is handed out whoever holds the lock
write_NoExclusion(t) ==
    rwlock' = [rwlock EXCEPT !.writers = @ \cup {t}]

\* RwLock::write: granted when no guard is out
write(t) ==
    /\ rwlock.writers = {}
    /\ rwlock.readers = {}
    /\ rwlock' = [rwlock EXCEPT !.writers = {t}]

\* RwLock::read: granted when no write guard is out
read(t) ==
    /\ rwlock.writers = {}
    /\ rwlock' = [rwlock EXCEPT !.readers = @ \cup {t}]

\* the thread is in no call and the call is the next one it makes
MayCall(t, op, name, policy) ==
    /\ threads[t].pc = "idle"
    /\ IF threads[t].todo = <<>> THEN TRUE
       ELSE Head(threads[t].todo) = Mutation(op, name, policy)

\* the thread enters the call with the guard taken
Enters(t, pc_, op, name, policy) ==
    threads' = [threads EXCEPT ![t] =
                   [CallRecord(pc_, op, name, policy, None, None)
                        EXCEPT !.todo = IF threads[t].todo = <<>> THEN <<>>
                                        ELSE Tail(threads[t].todo)]]

InitGlobal ==
    /\ NoBuilder
    /\ entries = <<>>
    /\ rwlock = [writers |-> {}, readers |-> {}]
    /\ threads = [t \in GlobalThreads |-> Idle]
    /\ history = <<>>

\* register_global_policy: global_registry().write()
register_global_policy(t, name, policy) ==
    /\ MayCall(t, "register", name, Some(policy))
    /\ Len(history) < MaxRegistryOps
    /\ write(t)
    /\ Enters(t, "search", "register", name, Some(policy))
    /\ UNCHANGED <<retry_call, entries, history>>

\* get_global_policy: global_registry().read()
get_global_policy(t, name) ==
    /\ MayCall(t, "get", name, None)
    /\ read(t)
    /\ Enters(t, "search", "get", name, None)
    /\ UNCHANGED <<retry_call, entries, history>>

\* remove_global_policy: global_registry().write()
remove_global_policy(t, name) ==
    /\ MayCall(t, "remove", name, None)
    /\ Len(history) < MaxRegistryOps
    /\ write(t)
    /\ Enters(t, "search", "remove", name, None)
    /\ UNCHANGED <<retry_call, entries, history>>

\* list_global_policies: global_registry().read()
list_global_policies(t) ==
    /\ MayCall(t, "all", "", None)
    /\ read(t)
    /\ Enters(t, "apply", "all", "", None)
    /\ UNCHANGED <<retry_call, entries, history>>

\* clear_global_policies: global_registry().write()
clear_global_policies(t) ==
    /\ MayCall(t, "clear", "", None)
    /\ Len(history) < MaxRegistryOps
    /\ write(t)
    /\ Enters(t, "apply", "clear", "", None)
    /\ UNCHANGED <<retry_call, entries, history>>

\* the search of register, get and remove
GuardSearch(t) ==
    /\ threads[t].pc = "search"
    /\ threads' = [threads EXCEPT ![t].pc = "apply",
                                  ![t].found = position(entries, threads[t].name)]
    /\ UNCHANGED <<retry_call, entries, rwlock, history>>

\* guard.register(name, policy) after its search
GuardRegister(t) ==
    /\ threads[t].pc = "apply"
    /\ threads[t].op = "register"
    /\ LET call == threads[t]
           r == register_found(entries, call.found, call.name, Unwrap(call.policy))
       IN  /\ entries' = r.entries
           /\ threads' = [threads EXCEPT ![t].pc = "drop", ![t].ret = r.ret]
           /\ history' = Append(history, Mutation("register", call.name, call.policy))
    /\ UNCHANGED <<retry_call, rwlock>>

\* guard.get(name) after its search
GuardGet(t) ==
    /\ threads[t].pc = "apply"
    /\ threads[t].op \in {"get", "retry_with_policy"}
    /\ threads' = [threads EXCEPT ![t].pc = "drop",
                                  ![t].ret = get_found(entries, threads[t].found)]
    /\ UNCHANGED <<retry_call, entries, rwlock, history>>

\* guard.remove(name) after its search: nothing found, or the first write of
\* swap_remove
GuardRemove(t) ==
    /\ threads[t].pc = "apply"
    /\ threads[t].op = "remove"
    /\ LET call == threads[t]
       IN  IF IsSome(call.found)
           THEN /\ entries' = swap_remove_copy(entries, Unwrap(call.found))
                /\ threads' = [threads EXCEPT ![t].pc = "set_len",
                                              ![t].ret = Some(entries[Unwrap(call.found)][2])]
                /\ UNCHANGED history
           ELSE /\ threads' = [threads EXCEPT ![t].pc = "drop", ![t].ret = None]
                /\ history' = Append(history, Mutation("remove", call.name, None))
                /\ UNCHANGED entries
    /\ UNCHANGED <<retry_call, rwlock>>

\* the second write of swap_remove
GuardSetLen(t) ==
    /\ threads[t].pc = "set_len"
    /\ entries' = swap_remove_set_len(entries)
    /\ threads' = [threads EXCEPT ![t].pc = "drop"]
    /\ history' = Append(history, Mutation("remove", threads[t].name, None))
    /\ UNCHANGED <<retry_call, rwlock>>

\* guard.all()
GuardAll(t) ==
    /\ threads[t].pc = "apply"
    /\ threads[t].op = "all"
    /\ threads' = [threads EXCEPT ![t].pc = "drop", ![t].ret = all(entries)]
    /\ UNCHANGED <<retry_call, entries, rwlock, history>>

\* guard.clear()
GuardClear(t) ==
    /\ threads[t].pc = "apply"
    /\ threads[t].op = "clear"
    /\ entries' = clear(entries)
    /\ threads' = [threads EXCEPT ![t].pc = "drop"]
    /\ history' = Append(history, Mutation("clear", "", None))
    /\ UNCHANGED <<retry_call, rwlock>>

\* the guard is dropped when the function returns
DropGuard(t) ==
    /\ threads[t].pc = "drop"
    /\ threads[t].op # "retry_with_policy"
    /\ rwlock' = [writers |-> rwlock.writers \ {t}, readers |-> rwlock.readers \ {t}]
    /\ threads' = [threads EXCEPT ![t] = [Idle EXCEPT !.todo = threads[t].todo]]
    /\ UNCHANGED <<retry_call, entries, history>>

NextGlobal ==
    \/ \E t \in GlobalThreads, name \in GlobalNames, policy \in RegistryPolicies :
          register_global_policy(t, name, policy)
    \/ \E t \in GlobalThreads, name \in GlobalNames : get_global_policy(t, name)
    \/ \E t \in GlobalThreads, name \in GlobalNames : remove_global_policy(t, name)
    \/ \E t \in GlobalThreads : list_global_policies(t)
    \/ \E t \in GlobalThreads : clear_global_policies(t)
    \/ \E t \in GlobalThreads : GuardSearch(t)
    \/ \E t \in GlobalThreads : GuardRegister(t)
    \/ \E t \in GlobalThreads : GuardGet(t)
    \/ \E t \in GlobalThreads : GuardRemove(t)
    \/ \E t \in GlobalThreads : GuardSetLen(t)
    \/ \E t \in GlobalThreads : GuardAll(t)
    \/ \E t \in GlobalThreads : GuardClear(t)
    \/ \E t \in GlobalThreads : DropGuard(t)

SpecGlobal == InitGlobal /\ [][NextGlobal]_vars

-----------------------------------------------------------------------------
(* The DSL (dsl.rs): builder_for_policy and retry_with_policy on top of    *)
(* the global registry, called by the two tests of dsl.rs, which the test  *)
(* harness runs as two threads of one process.                             *)

DslTests == {"test_retry_with_policy_success", "test_retry_with_policy_missing"}

DslNames == {"default", "missing"}

\* enum DslError { PolicyMissing(String), Execution(RetryError<E>) }
PolicyMissing(name) == [dsl |-> "PolicyMissing", val |-> name]
Execution(err) == [dsl |-> "Execution", val |-> err]

\* the thread's program has ended
Exit == Mutation("exit", "", None)

\* BackoffPolicy::from(ExponentialBackoff::new().max_attempts(2))
TestPolicy == BackoffPolicy(ExponentialBackoffDefault(2))

\* the calls of the two tests, in their order
Program(test) ==
    IF test = "test_retry_with_policy_success"
    THEN <<Mutation("clear", "", None),
           Mutation("register", "default", Some(TestPolicy)),
           Mutation("retry_with_policy", "default", None),
           Exit>>
    ELSE <<Mutation("clear", "", None),
           Mutation("retry_with_policy", "missing", None),
           Exit>>

\* the closure of test_retry_with_policy_success, which fails once and then
\* succeeds, and one that always fails
SuccessClosures ==
    {Operation(Failures(1, "fail"), Ok("ok")), Operation(<<>>, Err("fail"))}

\* the closure a test gives to retry_with_policy: || Ok(()) in
\* test_retry_with_policy_missing
ClosureOf(test) ==
    IF test = "test_retry_with_policy_success" THEN operation
    ELSE Operation(<<>>, Ok("unit"))

InitDsl ==
    /\ operation \in SuccessClosures
    /\ NotBuilt
    /\ entries = <<>>
    /\ rwlock = [writers |-> {}, readers |-> {}]
    /\ threads = [t \in DslTests |-> [Idle EXCEPT !.todo = Program(t)]]
    /\ history = <<>>

\* retry_with_policy calls builder_for_policy, which calls get_global_policy:
\* global_registry().read()
retry_with_policy(t, name) ==
    /\ MayCall(t, "retry_with_policy", name, None)
    /\ read(t)
    /\ Enters(t, "search", "retry_with_policy", name, None)
    /\ UNCHANGED <<retry_call, entries, history>>

\* get_global_policy returns to builder_for_policy, its guard dropped
PolicyFetched(t) ==
    /\ threads[t].pc = "drop"
    /\ threads[t].op = "retry_with_policy"
    /\ rwlock' = [writers |-> rwlock.writers \ {t}, readers |-> rwlock.readers \ {t}]
    /\ threads' = [threads EXCEPT ![t].pc = "policy"]
    /\ UNCHANGED <<retry_call, entries, history>>

\* a mutant of ok_or_else: a missing policy is replaced by a default one
ok_or_else_Default(fetched, name) ==
    IF IsSome(fetched) THEN Ok(Unwrap(fetched))
    ELSE Ok(BackoffPolicy(ExponentialBackoffDefault(3)))

\* .ok_or_else(|| DslError::PolicyMissing(policy_name.to_string()))
ok_or_else(fetched, name) ==
    IF IsSome(fetched) THEN Ok(Unwrap(fetched)) ELSE Err(PolicyMissing(name))

\* builder_for_policy once the policy is fetched: `?` returns PolicyMissing
\* from builder_for_policy and from retry_with_policy, or operation.retry(policy)
\* builds the builder
builder_for_policy(t) ==
    /\ threads[t].pc = "policy"
    /\ LET policy == ok_or_else(threads[t].ret, threads[t].name)
       IN  IF policy.ok
           THEN /\ pc = "none"
                /\ pc' = "builder"
                /\ operation' = ClosureOf(t)
                /\ backoff' = policy.val
                /\ threads' = [threads EXCEPT ![t].pc = "call"]
                /\ UNCHANGED <<invocations, when, notify, on_success, on_failure, attempt,
                               max_attempts, cumulative_delay_ms, trace, result, first,
                               probe, setter_calls>>
           ELSE /\ threads' = [threads EXCEPT ![t].pc = "returned",
                                              ![t].ret = Err(policy.val)]
                /\ UNCHANGED retry_call
    /\ UNCHANGED <<entries, rwlock, history>>

\* .call().map_err(DslError::Execution)
map_err_Execution(res) == IF res.ok THEN res ELSE Err(Execution(res.val))

\* retry_with_policy returns what call returned
RetryWithPolicyReturns(t) ==
    /\ threads[t].pc = "call"
    /\ pc = "returned"
    /\ threads' = [threads EXCEPT ![t].pc = "returned",
                                  ![t].ret = map_err_Execution(Unwrap(result))]
    /\ UNCHANGED <<retry_call, entries, rwlock, history>>

NextDsl ==
    \/ \E t \in DslTests : clear_global_policies(t)
    \/ \E t \in DslTests, name \in DslNames, policy \in RegistryPolicies :
          register_global_policy(t, name, policy)
    \/ \E t \in DslTests, name \in DslNames : retry_with_policy(t, name)
    \/ \E t \in DslTests : GuardSearch(t)
    \/ \E t \in DslTests : GuardRegister(t)
    \/ \E t \in DslTests : GuardGet(t)
    \/ \E t \in DslTests : GuardClear(t)
    \/ \E t \in DslTests : DropGuard(t)
    \/ \E t \in DslTests : PolicyFetched(t)
    \/ \E t \in DslTests : builder_for_policy(t)
    \/ Call
    \/ AttemptOk
    \/ AttemptExhausted
    \/ \E r \in RandomScalars : AttemptRetry(r)
    \/ \E t \in DslTests : RetryWithPolicyReturns(t)

SpecDsl == InitDsl /\ [][NextDsl]_vars

-----------------------------------------------------------------------------
(* What a state shows of the call.                                         *)

Returned == pc = "returned"
ReturnedOk == Returned /\ Unwrap(result).ok
ReturnedErr == Returned /\ ~Unwrap(result).ok
\* the RetryOutcome or RetryError returned
Returns == Unwrap(result).val

\* the position of the last invocation of the operation in the trace (0 if none)
RECURSIVE LastOpUpTo(_)
LastOpUpTo(i) ==
    IF i = 0 THEN 0
    ELSE IF trace[i].ev = "operation" THEN i ELSE LastOpUpTo(i - 1)

LastOp == LastOpUpTo(Len(trace))

\* the events since the last invocation of the operation
SinceLastOp == SubSeq(trace, LastOp + 1, Len(trace))

\* the last invocation of the operation failed with a cause that the
\* configured predicate rejects
LastFailureRejected ==
    /\ LastOp > 0
    /\ ~trace[LastOp].result.ok
    /\ IsSome(when)
    /\ trace[LastOp].result.val \notin Unwrap(when)

\* the sum of the delays slept, with the sum of the u64 delays the engine
\* keeps (saturating at u64::MAX)
RECURSIVE SumMsRange(_, _, _)
SumMsRange(events, lo, hi) ==
    IF lo > hi THEN U64Zero
    ELSE IF lo = hi THEN events[lo].ms
    ELSE LET mid == (lo + hi) \div 2
         IN  saturating_add_u64(SumMsRange(events, lo, mid),
                                SumMsRange(events, mid + 1, hi))

SumMs(events) == SumMsRange(events, 1, Len(events))

\* the sum of the delays of events lo..hi as a natural number, which no
\* width bounds
RECURSIVE NatSumMs(_, _, _)
NatSumMs(events, lo, hi) ==
    IF lo > hi THEN <<>>
    ELSE IF lo = hi THEN NatOfU64(events[lo].ms)
    ELSE LET mid == (lo + hi) \div 2
         IN  NatAdd(NatSumMs(events, lo, mid), NatSumMs(events, mid + 1, hi))

\* the u64 that is n, or u64::MAX when n is larger
SaturatedU64(n) == IF NatLess(NatOfU64(U64MAX), n) THEN U64MAX ELSE U64OfNat(n)

Sleeps == EventsOf("sleep_ms")
Notifies == EventsOf("notify")

\* the invocations of the operation and of the sleeper, in their order
OpsAndSleeps == SelectSeq(trace, LAMBDA x : x.ev \in {"operation", "sleep_ms"})

\* the operation and the sleeper take turns, the operation first
OneSleepBetween ==
    \A turns \in {OpsAndSleeps} :
        \A i \in 1..Len(turns) :
            turns[i].ev = (IF i % 2 = 1 THEN "operation" ELSE "sleep_ms")

\* every result the operation can return
ResultsOf(op) == {op.script[i] : i \in 1..Len(op.script)} \cup {op.rest}

\* every failure of the operation is accepted by the predicate, if any
NoRejection(op) ==
    IsSome(when) => \A res \in ResultsOf(op) : ~res.ok => res.val \in Unwrap(when)

\* the strategy applies no jitter (jitter_factor clamps to 0.0)
NoJitter(b) == ~b.jitter_factor.nan /\ BitLen(clamp01(b.jitter_factor).v.m) = 0

\* base_delay * multiplier^(attempt-1), exactly: one multiplication by a
\* multiplier of numerator m over 2 (m >= 2) of the value n / 2^d, until the
\* cap is reached
ExactPowStep(st, m, cap) ==
    IF st.over THEN st
    ELSE CHOOSE res \in
            {[n |-> IF Bit(n1, 0) = 0 THEN Shr(n1, 1) ELSE n1,
              d |-> IF Bit(n1, 0) = 0 THEN st.d ELSE st.d + 1,
              over |-> ~NatLess(n1, Shl(cap, st.d + 1))] :
                n1 \in {Trimmed(NatMul(st.n, NatOfInt(m)))}} : TRUE

\* k multiplications, in two halves
RECURSIVE ExactPowLoop(_, _, _, _)
ExactPowLoop(st, m, cap, k) ==
    IF k = 0 THEN st
    ELSE IF k = 1 THEN ExactPowStep(st, m, cap)
    ELSE CHOOSE res \in {ExactPowLoop(half, m, cap, k - k \div 2) :
                            half \in {ExactPowLoop(st, m, cap, k \div 2)}} : TRUE

\* min(base_delay_ms * multiplier^(attempt-1), max_delay_ms) in whole ms,
\* computed without rounding
ExactExponential(b, a) ==
    LET cap == NatOfU64(b.max_delay_ms)
        base == Trimmed(NatOfU64(b.base_delay_ms))
        st == ExactPowLoop([n |-> base, d |-> 0, over |-> ~NatLess(base, cap)],
                           b.multiplier, cap, saturating_dec_u8(a))
    IN  IF st.over THEN b.max_delay_ms ELSE U64OfNat(Shr(st.n, st.d))

\* the Fibonacci sequence without a bound: k steps from the pair <<a, b>>,
\* in two halves
RECURSIVE ExactFibLoop(_, _)
ExactFibLoop(ab, k) ==
    IF k = 0 THEN ab
    ELSE IF k = 1 THEN <<ab[2], NatAdd(ab[1], ab[2])>>
    ELSE CHOOSE res \in {ExactFibLoop(half, k - k \div 2) :
                            half \in {ExactFibLoop(ab, k \div 2)}} : TRUE

\* fib(0) = 0, fib(1) = fib(2) = 1, fib(n) = fib(n-1) + fib(n-2)
ExactFib(n) == ExactFibLoop(<<<<>>, <<1>>>>, n)[1]

\* min(base_delay_ms * fib(attempt), max_delay_ms), computed without rounding
ExactFibonacci(b, a) ==
    CHOOSE d \in {IF NatLess(product, NatOfU64(b.max_delay_ms))
                  THEN U64OfNat(product) ELSE b.max_delay_ms :
                     product \in {NatMul(NatOfU64(b.base_delay_ms), ExactFib(a))}} : TRUE

\* the strategy with jitter_factor 0.0
WithoutJitter(b) ==
    IF b.kind = "Policy" THEN BackoffPolicy([b.policy EXCEPT !.jitter_factor = F64(0)])
    ELSE [b EXCEPT !.jitter_factor = F64(0)]

\* the unjittered delay of strategy b for attempt a < max_attempts: the
\* delay it returns with jitter_factor 0.0
Unjittered(b, a) == Unwrap(ComputeDelay(WithoutJitter(b), a, 0))

\* floor(base * (1 - jitter_factor)), computed without rounding, for a
\* jitter factor jf = m * 2^e in [0, 1] (e <= 0)
JitterFloor(base, jf) ==
    Shr(NatMul(NatOfU64(base), NatSub(Shl(<<1>>, -jf.e), jf.m)), -jf.e)

\* the jitter_factor of the strategy, clamped
JitterFactorOf(b) ==
    clamp01(IF b.kind = "Policy" THEN b.policy.jitter_factor ELSE b.jitter_factor)

\* f64 ==
F64Equal(x, y) ==
    /\ ~x.nan /\ ~y.nan
    /\ x.neg = y.neg
    /\ ~F64Less(x.v, y.v) /\ ~F64Less(y.v, x.v)

\* the jitter factor is below 0.0, above 1.0
BelowZero(jf) == ~jf.nan /\ jf.neg /\ BitLen(jf.v.m) > 0
AboveOne(jf) == ~jf.nan /\ ~jf.neg /\ F64Less(F64One, jf.v)

\* the delays of a probe of SpecJitter are those of the same functions
\* given the jitter factor jf
SameDelaysAs(p, jf) ==
    /\ p.by_setter = ComputeDelay(jitter_factor(p.strategy, jf), p.attempt, p.random_scalar)
    /\ p.by_field = ComputeDelay(WithJitterField(p.strategy, jf), p.attempt, p.random_scalar)
    /\ p.policy = IF p.strategy.kind = "Exponential"
                  THEN Some(calculate_delay_with_rng(PolicyOf(p.strategy), p.attempt, jf,
                                                     p.random_scalar))
                  ELSE None
    /\ F64Equal(p.host, HostDelay(p.strategy, p.attempt, jf, p.random_scalar))

\* the policy of the most recent register(name, .) of a history that no
\* remove(name) and no clear() follows
RECURSIVE MostRecent(_, _)
MostRecent(log, name) ==
    IF log = <<>> THEN None
    ELSE LET last == log[Len(log)]
         IN  IF last.op = "clear" THEN None
             ELSE IF last.name = name
                  THEN (IF last.op = "register" THEN last.policy ELSE None)
                  ELSE MostRecent(SubSeq(log, 1, Len(log) - 1), name)

\* the history before its last call
Before(log) == SubSeq(log, 1, Len(log) - 1)

\* the pairs a history leaves in the registry
StoredPairs(log) ==
    {Entry(name, Unwrap(MostRecent(log, name))) :
        name \in {n \in PolicyNames : IsSome(MostRecent(log, n))}}

\* the last call of the owner of the registry
LastCallOf(t) == threads[t]

\* the threads that hold a guard of the global registry for a call of ops
Holding(ops) ==
    {t \in DOMAIN threads : threads[t].pc # "idle" /\ threads[t].op \in ops}

\* the entries are the pairs the history stores, one entry for each name
EntriesAre(log) ==
    /\ {entries[i] : i \in 1..Len(entries)} = StoredPairs(log)
    /\ Len(entries) = Cardinality(StoredPairs(log))

\* what the call returns when the calls of the history before it have been
\* made one after the other
SequentialResult(call, log) ==
    CASE call.op \in {"register", "remove", "get"} -> MostRecent(log, call.name)
      [] call.op = "all" -> StoredPairs(log)
      [] OTHER -> None

\* what the call has returned, the pairs of all() as a set
ObservedResult(call) ==
    IF call.op = "all" THEN {call.ret[i] : i \in 1..Len(call.ret)} ELSE call.ret

\* retry_with_policy has returned to the test
DslReturned(t) ==
    threads[t].op = "retry_with_policy" /\ threads[t].pc = "returned"

\* it has returned DslError::PolicyMissing
ReturnedMissing(t) ==
    /\ DslReturned(t)
    /\ ~threads[t].ret.ok
    /\ threads[t].ret.val.dsl = "PolicyMissing"

\* the test has made the calls of its program up to retry_with_policy
CalledInOrder(t, ops) ==
    /\ Len(Program(t)) = Len(ops) + 1
    /\ \A i \in 1..Len(ops) : Program(t)[i].op = ops[i]
    /\ threads[t].todo = <<Exit>>

\* the argument of the last recorded call of a setter, if any
LastCall(fn) ==
    LET calls == SelectSeq(setter_calls, LAMBDA c : c.fn = fn)
    IN  IF calls = <<>> THEN None ELSE Some(calls[Len(calls)].arg)

\* the sum of the delays of strategy b for the attempts 1..k, whatever is drawn
RECURSIVE SumDelays(_, _, _)
SumDelays(b, k, r) ==
    IF k = 0 THEN U64Zero
    ELSE saturating_add_u64(SumDelays(b, k - 1, r), Unwrap(delay(b, k, r)))

\* the strategy declines the current attempt: should_retry is false or delay
\* is None
StrategyDeclines ==
    \/ ~should_retry(backoff, attempt)
    \/ \A r \in RandomScalars : delay(backoff, attempt, r) = None

-----------------------------------------------------------------------------
(* C1: when the configured predicate returns false for the failure of the   *)
(* current attempt, the call ends there with kind PredicateRejected, and    *)
(* neither should_retry nor delay is consulted for that failure - also when *)
(* the strategy would have refused the retry (attempt >= max_attempts).     *)
C1_PredicateBeforeStrategy ==
    LastFailureRejected =>
        /\ ReturnedErr
        /\ Returns.kind = "PredicateRejected"
        /\ \A i \in 1..Len(SinceLastOp) :
               SinceLastOp[i].ev \notin {"should_retry", "delay", "notify", "sleep_ms"}

\* a rejected failure on an attempt at which the strategy refuses too
C1_Witness ==
    /\ LastFailureRejected
    /\ BuiltIn(backoff)
    /\ attempt >= backoff.max_attempts
    /\ ~should_retry(backoff, attempt)
    /\ ReturnedErr

(* C2 as stated: if the first failure that the predicate rejects is that of *)
(* the k-th invocation of the operation, the call returns Err with kind     *)
(* PredicateRejected, attempts() = k, cumulative_delay_ms the sum of the    *)
(* k-1 delays slept, and no sleep or notify for attempt k; when the         *)
(* predicate rejects every failure, k = 1 and there is no sleep at all.     *)
C2_AsStated ==
    LastFailureRejected =>
        /\ ReturnedErr
        /\ Returns.kind = "PredicateRejected"
        /\ Returns.attempts = invocations
        /\ Returns.cumulative_delay_ms = SumMs(Sleeps)
        /\ Len(Sleeps) = invocations - 1
        /\ \A i \in 1..Len(SinceLastOp) : SinceLastOp[i].ev \notin {"notify", "sleep_ms"}
        /\ (Unwrap(when) = {} => invocations = 1 /\ Sleeps = <<>>)

(* C2, amended: if the first failure that the predicate rejects is that of  *)
(* the k-th invocation of the operation, the call returns Err with kind     *)
(* PredicateRejected, attempts() = min(k, 255) (the u8 attempt counter      *)
(* saturates), cumulative_delay_ms the (saturating) sum of the k-1 delays   *)
(* slept, and no sleep or notify for attempt k; when the predicate rejects  *)
(* every failure, k = 1 and there is no sleep at all.                       *)
C2_RejectedAtAttemptK ==
    LastFailureRejected =>
        /\ ReturnedErr
        /\ Returns.kind = "PredicateRejected"
        /\ Returns.attempts = Min(invocations, U8Max)
        /\ Returns.cumulative_delay_ms = SumMs(Sleeps)
        /\ Len(Sleeps) = invocations - 1
        /\ \A i \in 1..Len(SinceLastOp) : SinceLastOp[i].ev \notin {"notify", "sleep_ms"}
        /\ (Unwrap(when) = {} => invocations = 1 /\ Sleeps = <<>>)

\* a failure rejected after two retried failures
C2_Witness ==
    /\ LastFailureRejected
    /\ ReturnedErr
    /\ invocations = 3
    /\ Returns.attempts = 3
    /\ Len(Sleeps) = 2

(* C3: an operation that fails on every invocation, with no failure         *)
(* rejected by the predicate, under a built-in strategy with max_attempts   *)
(* = N >= 1, is invoked exactly N times and the call returns Err with kind  *)
(* Exhausted, attempts() = N, max_attempts() = N and a cause.               *)
C3_AlwaysFailingExhausts ==
    (/\ pc \in {"loop", "returned"}
     /\ BuiltIn(backoff)
     /\ backoff.max_attempts >= 1
     /\ \A res \in ResultsOf(operation) : ~res.ok
     /\ NoRejection(operation))
    => /\ invocations <= backoff.max_attempts
       /\ Returned =>
            /\ ~Unwrap(result).ok
            /\ invocations = backoff.max_attempts
            /\ Returns.kind = "Exhausted"
            /\ Returns.attempts = backoff.max_attempts
            /\ Returns.max_attempts = backoff.max_attempts
            /\ IsSome(Returns.cause)

\* an always failing operation exhausts a built-in strategy of three attempts
C3_Witness ==
    /\ ReturnedErr
    /\ BuiltIn(backoff)
    /\ backoff.max_attempts = 3
    /\ \A res \in ResultsOf(operation) : ~res.ok
    /\ NoRejection(operation)
    /\ invocations = 3

(* C4: when the operation fails k times and then succeeds, under a built-in *)
(* strategy without jitter and with max_attempts >= k + 1, the call returns *)
(* Ok with attempts() = k + 1, the value of the operation, and              *)
(* cumulative_delay_ms the sum of the delays of the strategy for the        *)
(* attempts 1..k.                                                           *)
C4_SuccessAfterKFailures ==
    LET k == invocations - 1
    IN  (/\ LastOp > 0
         /\ trace[LastOp].result.ok
         /\ BuiltIn(backoff)
         /\ NoJitter(backoff)
         /\ backoff.max_attempts >= k + 1)
        => /\ ReturnedOk
           /\ \A i \in 1..k : ~ResultAt(operation, i).ok
           /\ Returns.attempts = k + 1
           /\ Returns.value = ResultAt(operation, k + 1).val
           /\ \A r \in RandomScalars :
                  Returns.cumulative_delay_ms = SumDelays(backoff, k, r)

\* two failures, then a success, under exponential backoff: 100 + 200 ms
C4_Witness ==
    /\ ReturnedOk
    /\ invocations = 3
    /\ backoff.kind = "Exponential"
    /\ NoJitter(backoff)
    /\ Returns.attempts = 3
    /\ Returns.cumulative_delay_ms = U64(300)

C6_LastCause ==
    ReturnedErr =>
        /\ IsSome(Returns.cause)
        /\ LastOp > 0
        /\ ~trace[LastOp].result.ok
        /\ Unwrap(Returns.cause) = trace[LastOp].result.val
        /\ Unwrap(Returns.cause) = ResultAt(operation, invocations).val

\* the last failure differs from the first one
C6_Witness ==
    /\ ReturnedErr
    /\ invocations >= 2
    /\ ResultAt(operation, 1).val # ResultAt(operation, invocations).val
    /\ Unwrap(Returns.cause) = ResultAt(operation, invocations).val

(* C7: every Err returned has kind Exhausted or PredicateRejected; it is    *)
(* PredicateRejected exactly when a configured predicate returned false for *)
(* the last failure, and Exhausted exactly when the predicate (if any)      *)
(* accepted the last failure and the strategy declined (should_retry false  *)
(* or delay None).                                                          *)
C7_TwoKinds ==
    ReturnedErr =>
        /\ Returns.kind \in {"Exhausted", "PredicateRejected"}
        /\ Returns.kind = "PredicateRejected" <=> LastFailureRejected
        /\ Returns.kind = "Exhausted" <=> (~LastFailureRejected /\ StrategyDeclines)
        /\ LastFailureRejected <=>
               \E i \in 1..Len(SinceLastOp) :
                   SinceLastOp[i].ev = "when" /\ ~SinceLastOp[i].verdict

\* the strategy allows the retry and then yields no delay
C7_Witness ==
    /\ ReturnedErr
    /\ Returns.kind = "Exhausted"
    /\ IsSome(when)
    /\ should_retry(backoff, attempt)
    /\ \A r \in RandomScalars : delay(backoff, attempt, r) = None

(* C8 as stated: the i-th notify invocation of a call receives a context    *)
(* with attempt = i, the error, next_delay_ms the delay about to be slept   *)
(* and cumulative_delay_ms the sum of the delays of the i-1 sleeps already  *)
(* performed (0 for the first).  Stated of the latest notify: every notify  *)
(* of a call is the latest one in the state its iteration leads to.         *)
C8_AsStated ==
    LET i == Len(Notifies)
    IN  i > 0 =>
            LET ctx == Notifies[i].ctx
            IN  /\ ctx.attempt = i
                /\ ctx.error = Some(ResultAt(operation, i).val)
                /\ Len(Sleeps) = i
                /\ ctx.next_delay_ms = Some(Sleeps[i].ms)
                /\ ctx.cumulative_delay_ms = SumMsRange(Sleeps, 1, i - 1)
                /\ (i = 1 => ctx.cumulative_delay_ms = U64Zero)

(* C8, amended: the i-th notify invocation of a call receives a context     *)
(* with attempt = min(i, 255) (the u8 attempt counter saturates), the       *)
(* error, next_delay_ms the delay about to be slept and cumulative_delay_ms *)
(* the (saturating) sum of the delays of the i-1 sleeps already performed   *)
(* (0 for the first).                                                       *)
C8_NotifyContext ==
    LET i == Len(Notifies)
    IN  i > 0 =>
            LET ctx == Notifies[i].ctx
            IN  /\ ctx.attempt = Min(i, U8Max)
                /\ ~ResultAt(operation, i).ok
                /\ ctx.error = Some(ResultAt(operation, i).val)
                /\ Len(Sleeps) = i
                /\ ctx.next_delay_ms = Some(Sleeps[i].ms)
                /\ ctx.cumulative_delay_ms = SumMsRange(Sleeps, 1, i - 1)
                /\ (i = 1 => ctx.cumulative_delay_ms = U64Zero)

\* the third notify, after two sleeps of 10 ms
C8_Witness ==
    /\ Len(Notifies) = 3
    /\ Notifies[3].ctx.attempt = 3
    /\ Notifies[3].ctx.cumulative_delay_ms = U64(20)
    /\ Notifies[3].ctx.next_delay_ms = Some(U64(10))

(* C9: for every retried failure the order is: the operation fails, notify  *)
(* (if configured) is invoked once, the sleeper is invoked once with the    *)
(* delay reported to notify, then the operation is invoked again; notify is *)
(* not invoked for the failure that ends the call, so a run that ends at    *)
(* its n-th invocation of the operation has n-1 notify invocations.         *)
C9_RetryOrder ==
    /\ \A p \in 1..Len(trace) :
          /\ trace[p].ev = "sleep_ms" =>
                /\ p < Len(trace) => trace[p + 1].ev = "operation"
                /\ IF IsSome(notify)
                   THEN /\ trace[p - 1].ev = "notify"
                        /\ trace[p - 1].cb = Unwrap(notify)
                        /\ trace[p - 1].ctx.next_delay_ms = Some(trace[p].ms)
                   ELSE trace[p - 1].ev = "delay"
          /\ trace[p].ev = "notify" =>
                /\ p < Len(trace)
                /\ trace[p + 1].ev = "sleep_ms"
                /\ trace[p - 1].ev = "delay"
          /\ (trace[p].ev = "operation" /\ p > 1) => trace[p - 1].ev = "sleep_ms"
          /\ (trace[p].ev = "operation" /\ p < LastOp) => ~trace[p].result.ok
    /\ Len(Sleeps) = (IF Returned THEN invocations - 1 ELSE invocations)
    /\ Len(Notifies) = (IF IsSome(notify) THEN Len(Sleeps) ELSE 0)
    /\ Returned =>
          /\ Len(Notifies) = (IF IsSome(notify) THEN invocations - 1 ELSE 0)
          /\ \A i \in 1..Len(SinceLastOp) :
                 SinceLastOp[i].ev \notin {"notify", "sleep_ms"}

\* a call that ends at its third invocation, with two notifications
C9_Witness ==
    /\ Returned
    /\ IsSome(notify)
    /\ invocations = 3
    /\ Len(Notifies) = 2
    /\ Len(Sleeps) = 2

(* C10: when an invocation of the operation succeeds, on_success (if        *)
(* configured) is invoked exactly once, with the attempt and the            *)
(* cumulative_delay_ms of the RetryOutcome returned, no error and no next   *)
(* delay; nothing is invoked after it in that call, and on_failure never.   *)
C10_OnSuccessOnce ==
    /\ (LastOp > 0 /\ trace[LastOp].result.ok) =>
          /\ ReturnedOk
          /\ EventsOf("on_failure") = <<>>
          /\ IF IsSome(on_success)
             THEN /\ Len(EventsOf("on_success")) = 1
                  /\ LastOp = Len(trace) - 1
                  /\ trace[Len(trace)] =
                        OnSuccessEvent(Unwrap(on_success),
                                       RetryContext(Returns.attempts, None,
                                                    Returns.cumulative_delay_ms, None))
             ELSE /\ EventsOf("on_success") = <<>>
                  /\ LastOp = Len(trace)
    /\ EventsOf("on_success") # <<>> => ReturnedOk

\* a success at the third attempt, reported to on_success
C10_Witness ==
    /\ ReturnedOk
    /\ IsSome(on_success)
    /\ Returns.attempts = 3
    /\ Len(EventsOf("on_success")) = 1
    /\ trace[Len(trace)].ev = "on_success"
    /\ trace[Len(trace)].ctx.attempt = 3

(* C11: on every path that returns Err, on_failure (if configured) is       *)
(* invoked exactly once, before the return, with an error whose kind,       *)
(* attempts, max_attempts and cumulative_delay_ms are those of the returned *)
(* error; on_failure is never invoked in a call that returns Ok, and        *)
(* on_success never in a call that returns Err.                             *)
C11_OnFailureOnce ==
    /\ ReturnedErr =>
        /\ EventsOf("on_success") = <<>>
        /\ IF IsSome(on_failure)
           THEN /\ Len(EventsOf("on_failure")) = 1
                /\ trace[Len(trace)].ev = "on_failure"
                /\ trace[Len(trace)].cb = Unwrap(on_failure)
                /\ LET err == trace[Len(trace)].err
                   IN  /\ err.kind = Returns.kind
                       /\ err.attempts = Returns.attempts
                       /\ err.max_attempts = Returns.max_attempts
                       /\ err.cumulative_delay_ms = Returns.cumulative_delay_ms
           ELSE EventsOf("on_failure") = <<>>
    /\ ~ReturnedErr => EventsOf("on_failure") = <<>>

\* a call that slept, then was declined by the strategy, with on_failure set
C11_Witness ==
    /\ ReturnedErr
    /\ IsSome(on_failure)
    /\ Returns.kind = "Exhausted"
    /\ Len(Sleeps) >= 1
    /\ Len(EventsOf("on_failure")) = 1

(* C12: at every point of a call the engine's cumulative_delay_ms is the    *)
(* sum of all the values passed to the sleeper so far, saturating at the    *)
(* 64-bit maximum and never wrapping, and the cumulative delay reported in  *)
(* the terminal RetryOutcome or RetryError is the sum of all the delays     *)
(* slept in that call.                                                      *)
C12_CumulativeIsSum ==
    pc \in {"loop", "returned"} =>
        LET slept == SaturatedU64(NatSumMs(Sleeps, 1, Len(Sleeps)))
        IN  /\ cumulative_delay_ms = slept
            /\ Returned => Returns.cumulative_delay_ms = slept

\* two delays of 2^63 ms slept: the sum is held at u64::MAX
C12_Witness ==
    /\ Returned
    /\ Len(Sleeps) = 2
    /\ Sleeps[1].ms = TwoTo63
    /\ Sleeps[2].ms = TwoTo63
    /\ Returns.cumulative_delay_ms = U64MAX

(* C13 as stated: the attempts of one call are strictly sequential with     *)
(* exactly one sleeper invocation between two consecutive operation         *)
(* invocations, no sleep before the first invocation or after the last, so  *)
(* that at termination the number of sleeps is the number of operation      *)
(* invocations minus one, and the reported attempts is the number of        *)
(* operation invocations.                                                   *)
C13_AsStated ==
    /\ OneSleepBetween
    /\ Len(EventsOf("operation")) = invocations
    /\ Returned =>
        /\ OpsAndSleeps[Len(OpsAndSleeps)].ev = "operation"
        /\ Len(Sleeps) = invocations - 1
        /\ Returns.attempts = invocations

(* C13, amended: the operation and the sleeper take turns, the operation    *)
(* first and last, so that at termination the number of sleeps is the       *)
(* number of operation invocations minus one; the reported attempts is the  *)
(* number of operation invocations up to 255, where the u8 counter stays.   *)
C13_Sequential ==
    /\ \A turns \in {OpsAndSleeps} :
           \A i \in 1..Len(turns) : (turns[i].ev = "operation") = (i % 2 = 1)
    /\ Len(EventsOf("operation")) = invocations
    /\ Returned =>
        /\ Len(OpsAndSleeps) = 2 * invocations - 1
        /\ Len(Sleeps) = invocations - 1
        /\ Returns.attempts = Min(invocations, U8Max)

\* a call that ends at its 256th invocation of the operation or later
C13_Witness ==
    /\ Returned
    /\ invocations > U8Max
    /\ Len(Sleeps) = invocations - 1
    /\ Returns.attempts = U8Max

(* C14: with any of the three built-in strategies, provided every           *)
(* invocation of the operation, of a callback and of the sleeper returns,   *)
(* call_with_sleeper eventually returns (Ok, Err PredicateRejected or Err   *)
(* Exhausted) after at most max(1, max_attempts) invocations of the         *)
(* operation; a retry is always followed by a new attempt.  (The loop is    *)
(* left by a return only, and every step taken in it invokes the operation: *)
(* the call returns iff it is not in its loop for ever.)                    *)
C14_Terminates ==
    /\ [](BuiltIn(backoff) => invocations <= Max(1, MaxAttemptsOf(backoff)))
    /\ []<>(BuiltIn(backoff) => pc # "loop")
    /\ [][pc = "loop" => /\ invocations' = invocations + 1
                         /\ pc' \in {"loop", "returned"}]_vars

\* a call with a built-in strategy that used all its attempts and returned
C14_Witness ==
    /\ Returned
    /\ BuiltIn(backoff)
    /\ MaxAttemptsOf(backoff) = MaxAttemptsBound
    /\ invocations = MaxAttemptsBound
    /\ Len(Sleeps) = MaxAttemptsBound - 1
    /\ Returns.kind = "Exhausted"

(* C15: two calls of the engine with the same pure operation and the same   *)
(* strategy with jitter_factor = 0 (and the same predicate, if any) produce *)
(* the same outcome, attempt count and cumulative delay, whatever the       *)
(* random draws are and whatever happened in the earlier call: each call    *)
(* starts at attempt 1 with cumulative delay 0, and a call does not modify  *)
(* the strategy.                                                            *)
C15_SameTwice ==
    /\ [](IsSome(first) /\ Returned /\ NoJitter(backoff) /\ Unwrap(first).when = when
            => Unwrap(result) = Unwrap(first).result)
    /\ [](pc = "loop" /\ invocations = 0 => attempt = 1 /\ cumulative_delay_ms = U64Zero)
    /\ [][backoff' = backoff]_vars

\* a second call that returned, after a first call that slept and failed
C15_Witness ==
    /\ IsSome(first)
    /\ Returned
    /\ NoJitter(backoff)
    /\ Unwrap(first).when = when
    /\ ~Unwrap(first).result.ok
    /\ Unwrap(first).result.val.attempts = MaxAttemptsBound
    /\ Unwrap(first).result.val.cumulative_delay_ms # U64Zero
    /\ Len(Sleeps) = MaxAttemptsBound - 1

(* C16: for ConstantBackoff, ExponentialBackoff, FibonacciBackoff and       *)
(* BackoffPolicy and every attempt, should_retry(attempt) is true iff       *)
(* attempt < max_attempts and delay(attempt, rng) is None iff               *)
(* attempt >= max_attempts: delay is None exactly when should_retry is      *)
(* false.                                                                   *)
C16_RetryIffBelowMax ==
    IsSome(probe) =>
        LET p == Unwrap(probe)
        IN  /\ p.should_retry = (p.attempt < p.max_attempts)
            /\ (p.delay = None) = (p.attempt >= p.max_attempts)
            /\ (p.delay = None) = ~p.should_retry
            /\ p.max_attempts = (IF p.strategy.kind = "Policy"
                                 THEN p.strategy.policy.max_attempts
                                 ELSE p.strategy.max_attempts)

\* a BackoffPolicy asked at its max_attempts: no retry and no delay
C16_Witness ==
    /\ IsSome(probe)
    /\ Unwrap(probe).strategy.kind = "Policy"
    /\ Unwrap(probe).attempt = MaxAttemptsBound
    /\ Unwrap(probe).max_attempts = MaxAttemptsBound
    /\ ~Unwrap(probe).should_retry
    /\ Unwrap(probe).delay = None

(* C17: a ConstantBackoff with jitter_factor = 0 returns                    *)
(* delay(attempt) = Some(delay_ms) for every attempt < max_attempts,        *)
(* whatever the attempt and the random draw.                                *)
C17_ConstantDelay ==
    IsSome(probe) =>
        LET p == Unwrap(probe)
        IN  (/\ p.strategy.kind = "Constant"
             /\ NoJitter(p.strategy)
             /\ p.attempt < p.strategy.max_attempts)
            => p.delay = Some(p.strategy.base_delay_ms)

\* delay_ms = 2^53 + 3, which no f64 holds: `self.delay_ms as f64` rounds it
\* to 2^53 + 4 and the delay returned is 2^53 + 4 ms
C17_Witness ==
    /\ IsSome(probe)
    /\ Unwrap(probe).strategy = ConstantBackoff(TwoTo53Plus(3), MaxAttemptsBound, F64(0))
    /\ Unwrap(probe).attempt = 1
    /\ Unwrap(probe).random_scalar = J
    /\ Unwrap(probe).delay = Some(TwoTo53Plus(4))

(* C18: an ExponentialBackoff with jitter_factor = 0 returns, for every     *)
(* attempt < max_attempts,                                                  *)
(* delay(attempt) = Some(min(base_delay_ms * multiplier^(attempt-1),        *)
(* max_delay_ms)), the exponent being attempt - 1 saturating at 0, and the  *)
(* delay never exceeds max_delay_ms.                                        *)
C18_ExponentialDelay ==
    IsSome(probe) =>
        LET p == Unwrap(probe)
        IN  (/\ p.strategy.kind = "Exponential"
             /\ NoJitter(p.strategy)
             /\ p.attempt < p.strategy.max_attempts)
            => /\ p.delay = Some(ExactExponential(p.strategy, p.attempt))
               /\ ~NatLess(NatOfU64(p.strategy.max_delay_ms), NatOfU64(Unwrap(p.delay)))

\* base 1 ms doubled 54 times and capped at 2^53 + 3 ms: the cap becomes the
\* f64 2^53 + 4 and the delay returned exceeds max_delay_ms
C18_Witness ==
    /\ IsSome(probe)
    /\ Unwrap(probe).strategy = ExponentialBackoff(U64(1), 4, TwoTo53Plus(3), U8Max, F64(0))
    /\ Unwrap(probe).attempt = 55
    /\ ExactExponential(Unwrap(probe).strategy, 55) = TwoTo53Plus(3)
    /\ Unwrap(probe).delay = Some(TwoTo53Plus(4))

(* C19: a FibonacciBackoff with jitter_factor = 0 returns, for every        *)
(* attempt < max_attempts,                                                  *)
(* delay(attempt) = Some(min(base_delay_ms * fib(attempt), max_delay_ms))   *)
(* with fib(1) = fib(2) = 1 and fib(n) = fib(n-1) + fib(n-2).               *)
C19_FibonacciDelay ==
    IsSome(probe) =>
        LET p == Unwrap(probe)
        IN  (/\ p.strategy.kind = "Fibonacci"
             /\ NoJitter(p.strategy)
             /\ p.attempt < p.strategy.max_attempts)
            => p.delay = Some(ExactFibonacci(p.strategy, p.attempt))

\* base 1 ms at attempt 79: fib(79) = 14472334024676221 is above 2^53 and
\* odd, `fib as f64` rounds it and the delay returned is 14472334024676220
C19_Witness ==
    /\ IsSome(probe)
    /\ Unwrap(probe).strategy = FibonacciBackoff(U64(1), U64MAX, U8Max, F64(0))
    /\ Unwrap(probe).attempt = 79
    /\ ExactFibonacci(Unwrap(probe).strategy, 79) = <<37757, 55452, 27266, 51>>
    /\ Unwrap(probe).delay = Some(<<37756, 55452, 27266, 51>>)

(* C20: for every built-in strategy, every attempt >= 1 below max_attempts, *)
(* every jitter_factor in [0, 1] and every random scalar r in [0, 1], the   *)
(* delay d returned satisfies 0 <= d <= base and                            *)
(* d >= floor(base * (1 - jitter_factor)), where base is the unjittered     *)
(* delay for that attempt.                                                  *)
C20_JitterRange ==
    IsSome(probe) =>
        LET p == Unwrap(probe)
        IN  (/\ p.attempt >= 1
             /\ p.attempt < p.max_attempts
             /\ ~JitterFactorOf(p.strategy).nan)
            => \A d \in {NatOfU64(Unwrap(p.delay))}, base \in {Unjittered(p.strategy, p.attempt)} :
                  /\ \A i \in 1..4 : Unwrap(p.delay)[i] \in Limb
                  /\ ~NatLess(NatOfU64(base), d)
                  /\ ~NatLess(d, JitterFloor(base, JitterFactorOf(p.strategy).v))

\* a constant delay of 90 ms with jitter_factor 0.3 and the draw r = 0.0:
\* the delay returned is 62 ms, below floor(90 * (1 - 0.3)) = 63 ms
C20_Witness ==
    /\ IsSome(probe)
    /\ Unwrap(probe).strategy = ConstantBackoff(U64(90), MaxAttemptsBound, ThreeTenths)
    /\ Unwrap(probe).attempt = 1
    /\ Unwrap(probe).random_scalar = 0
    /\ Unjittered(Unwrap(probe).strategy, 1) = U64(90)
    /\ Trimmed(JitterFloor(U64(90), ThreeTenths.v)) = <<63>>
    /\ Unwrap(probe).delay = Some(U64(62))

(* C21: a jitter_factor out of range is clamped to the nearest bound before *)
(* use: a negative value behaves as 0.0 (the delay is exactly the           *)
(* unjittered base) and a value above 1.0 behaves as 1.0 (the delay is in   *)
(* [0, base]), in Policy::calculate_delay_with_rng, in the strategies'      *)
(* jitter_factor setters and delay functions and in normalize_jitter.       *)
C21_Clamped ==
    IsSome(probe) =>
        \A p \in {Unwrap(probe)} :
            LET base == ComputeDelay(p.strategy, p.attempt, p.random_scalar)
                zero == F64(0)
                one == F64(J)
            IN  /\ BelowZero(p.jitter_factor) =>
                    /\ F64Equal(normalize_jitter(p.jitter_factor), zero)
                    /\ F64Equal(jitter_factor(p.strategy, p.jitter_factor).jitter_factor, zero)
                    /\ SameDelaysAs(p, zero)
                    /\ p.by_setter = base /\ p.by_field = base
                    /\ IsSome(p.policy) /\ IsSome(base) => p.policy = base
                /\ AboveOne(p.jitter_factor) =>
                    /\ F64Equal(normalize_jitter(p.jitter_factor), one)
                    /\ F64Equal(jitter_factor(p.strategy, p.jitter_factor).jitter_factor, one)
                    /\ SameDelaysAs(p, one)
                    /\ \A d \in {p.by_setter, p.by_field, p.policy} :
                          IsSome(d) /\ IsSome(base) =>
                              ~NatLess(NatOfU64(Unwrap(base)), NatOfU64(Unwrap(d)))

\* as in test_jitter_factor_clamping: base 1000 ms, multiplier 1.0, and the
\* jitter factor 2.0 with the draw 0.5 gives 500 ms, as 1.0 does
C21_Witness ==
    /\ IsSome(probe)
    /\ Unwrap(probe).strategy = ExponentialBackoff(U64(1000), 2, U64(10000), U8Max, F64(0))
    /\ Unwrap(probe).jitter_factor = F64(2 * J)
    /\ Unwrap(probe).attempt = 1
    /\ Unwrap(probe).random_scalar = J \div 2
    /\ Unwrap(probe).by_setter = Some(U64(500))
    /\ Unwrap(probe).by_field = Some(U64(500))
    /\ Unwrap(probe).policy = Some(U64(500))
    /\ F64Equal(Unwrap(probe).host, F64(500 * J))

(* C22: a NaN jitter_factor is treated as full jitter (1.0) by every delay  *)
(* computation: the delay of the three strategies (NaN given through the    *)
(* jitter_factor setter or the public field), of                            *)
(* Policy::calculate_delay_with_rng and of the host binding's functions     *)
(* computed with NaN equals the delay computed with jitter_factor 1.0 for   *)
(* the same random scalar.                                                  *)
C22_NaNIsFullJitter ==
    IsSome(probe) =>
        \A p \in {Unwrap(probe)} : p.jitter_factor.nan => SameDelaysAs(p, F64(J))

\* base 1000 ms, multiplier 1.0, jitter factor NaN and the draw 1.0:
\* Policy and the host binding give 1000 ms as with full jitter, and
\* ExponentialBackoff::delay gives 0 ms, through the setter and the field
C22_Witness ==
    /\ IsSome(probe)
    /\ Unwrap(probe).strategy = ExponentialBackoff(U64(1000), 2, U64(10000), U8Max, F64(0))
    /\ Unwrap(probe).jitter_factor = NaN
    /\ Unwrap(probe).attempt = 1
    /\ Unwrap(probe).random_scalar = J
    /\ Unwrap(probe).policy = Some(U64(1000))
    /\ F64Equal(Unwrap(probe).host, F64(1000 * J))
    /\ Unwrap(probe).by_setter = Some(U64Zero)
    /\ Unwrap(probe).by_field = Some(U64Zero)
    /\ jitter_factor(Unwrap(probe).strategy, NaN).jitter_factor.nan

(* C29: the host binding's delay functions compute the same delay as the    *)
(* in-process strategies for the same inputs and the same random scalar:    *)
(* calculate_delay_exponential(attempt, base, multiplier, max, jitter)      *)
(* equals min(base * multiplier^(attempt-1), max) * (1 - j + r*j) with j    *)
(* the normalized jitter, as ExponentialBackoff::delay and                  *)
(* Policy::calculate_delay_with_rng compute it before truncation, for       *)
(* every attempt in 1..255 (likewise for the constant and Fibonacci         *)
(* variants), including the normalization of NaN and of values out of       *)
(* range.                                                                   *)
C29_HostEqualsInProcess ==
    IsSome(probe) =>
        \A p \in {Unwrap(probe)} :
            p.attempt \in 1..U8Max =>
                /\ ~p.host.nan
                /\ IsSome(p.policy) => Unwrap(p.policy) = as_u64(p.host)
                /\ p.attempt < p.strategy.max_attempts =>
                      /\ F64Equal(p.host, p.jittered)
                      /\ p.by_field = Some(as_u64(p.host))
                      /\ p.by_setter = Some(as_u64(p.host))

\* base 100 ms doubled, attempt 3, jitter factor NaN and the draw 0.5: the
\* host binding and Policy give 200 (400 * 0.5) and the value
\* ExponentialBackoff::delay truncates is NaN
C29_Witness ==
    /\ IsSome(probe)
    /\ Unwrap(probe).strategy = ExponentialBackoff(U64(100), 4, U64(10000), U8Max, F64(0))
    /\ Unwrap(probe).jitter_factor = NaN
    /\ Unwrap(probe).attempt = 3
    /\ Unwrap(probe).random_scalar = J \div 2
    /\ F64Equal(Unwrap(probe).host, F64(200 * J))
    /\ Unwrap(probe).policy = Some(U64(200))
    /\ Unwrap(probe).jittered.nan
    /\ Unwrap(probe).by_field = Some(U64Zero)

(* C30: under ExponentialBackoff::default() (base 100 ms, full jitter 1.0), *)
(* whenever a call ends after at least one retry (terminal attempt >= 2),   *)
(* the cumulative_delay_ms reported is strictly greater than 0: in the      *)
(* Exhausted error returned, in the error passed to on_failure and in the   *)
(* context passed to on_success.                                            *)
C30_DelayAfterRetry ==
    (/\ Returned
     /\ \E m \in 0..U8Max : backoff = ExponentialBackoffDefault(m)
     /\ Returns.attempts >= 2)
    => /\ ~ReturnedOk /\ Returns.kind = "Exhausted" => Returns.cumulative_delay_ms # U64Zero
       /\ \A i \in 1..Len(trace) :
            /\ trace[i].ev = "on_failure" => trace[i].err.cumulative_delay_ms # U64Zero
            /\ trace[i].ev = "on_success" => trace[i].ctx.cumulative_delay_ms # U64Zero

\* as in test_on_failure_callback_invoked, ExponentialBackoff::default()
\* .max_attempts(2) and an operation that always fails: the one delay drawn
\* is 0 ms and on_failure and the caller are given cumulative_delay_ms = 0
C30_Witness ==
    /\ ReturnedErr
    /\ backoff = ExponentialBackoffDefault(2)
    /\ IsSome(on_failure)
    /\ Returns.kind = "Exhausted"
    /\ Returns.attempts = 2
    /\ Sleeps = <<SleepEvent(U64Zero)>>
    /\ Returns.cumulative_delay_ms = U64Zero
    /\ trace[Len(trace)].ev = "on_failure"
    /\ trace[Len(trace)].err.cumulative_delay_ms = U64Zero

(* C23: each builder setter is last-writer-wins: after several when(...)    *)
(* calls only the last predicate is consulted during call, and after        *)
(* several notify / on_success / on_failure calls only the last callback of *)
(* each kind is invoked; earlier ones are never invoked.                    *)
C23_LastWriterWins ==
    /\ when = LastCall("when")
    /\ notify = LastCall("notify")
    /\ on_success = LastCall("on_success")
    /\ on_failure = LastCall("on_failure")
    /\ \A i \in 1..Len(trace) :
        /\ trace[i].ev = "when" =>
              /\ IsSome(LastCall("when"))
              /\ trace[i].verdict = (trace[i].error \in Unwrap(LastCall("when")))
        /\ trace[i].ev \in {"notify", "on_success", "on_failure"} =>
              LastCall(trace[i].ev) = Some(trace[i].cb)

\* notify(c1) then notify(c2) on the builder, and a call that retries once:
\* the callback invoked before the retry is c2
C23_Witness ==
    /\ setter_calls = <<SetterCall("notify", "c1"), SetterCall("notify", "c2")>>
    /\ Returned
    /\ Len(Notifies) = 1
    /\ Notifies[1].cb = "c2"
    /\ \A i \in 1..Len(trace) : trace[i].ev = "notify" => trace[i].cb # "c1"

(* C24: a PolicyRegistry behaves as a map from name to policy:             *)
(* get(name) returns the policy of the most recent register(name, .) that  *)
(* no remove(name) or clear() follows, and None without one; register      *)
(* returns the policy stored under the name before the call; all() lists   *)
(* exactly the pairs stored, one for each name.                            *)
C24_RegistryIsMap ==
    LET last == LastCallOf("main")
    IN  /\ \A name \in PolicyNames : get(entries, name) = MostRecent(history, name)
        /\ last.op = "get" => last.ret = MostRecent(history, last.name)
        /\ last.op = "register" =>
              /\ last.ret = MostRecent(Before(history), last.name)
              /\ get(entries, last.name) = last.policy
        /\ last.op = "all" =>
              /\ {last.ret[i] : i \in 1..Len(last.ret)} = StoredPairs(history)
              /\ Len(last.ret) = Cardinality(StoredPairs(history))

\* register("default", p2), register("workers", p2), register("default", p3)
\* returned Some(p2): both names are stored and get("default") is p3
C24_Witness ==
    /\ Len(history) = 3
    /\ history[1].op = "register" /\ history[1].name = "default"
    /\ history[2].op = "register" /\ history[2].name = "workers"
    /\ history[3].op = "register" /\ history[3].name = "default"
    /\ history[3].policy # history[1].policy
    /\ LastCallOf("main").op = "register"
    /\ LastCallOf("main").ret = history[1].policy
    /\ get(entries, "default") = history[3].policy
    /\ Len(all(entries)) = 2

(* C25: remove(name) returns the policy stored under the name, and get of  *)
(* the name is None afterwards; remove of a name that is not registered    *)
(* returns None and leaves the registry unchanged.                         *)
C25_Remove ==
    /\ \A name \in PolicyNames :
          LET removed == remove(entries, name)
          IN  /\ removed.ret = MostRecent(history, name)
              /\ get(removed.entries, name) = None
              /\ \A other \in PolicyNames \ {name} :
                    get(removed.entries, other) = get(entries, other)
              /\ get(entries, name) = None =>
                    removed.ret = None /\ removed.entries = entries
    /\ LastCallOf("main").op = "remove" =>
          /\ LastCallOf("main").ret = MostRecent(Before(history), LastCallOf("main").name)
          /\ get(entries, LastCallOf("main").name) = None

\* two names registered, then the first one removed: its policy is returned,
\* it is gone and the other name is still registered
C25_Witness ==
    /\ Len(history) = 3
    /\ history[1].op = "register" /\ history[2].op = "register"
    /\ history[1].name # history[2].name
    /\ history[3].op = "remove" /\ history[3].name = history[1].name
    /\ LastCallOf("main").op = "remove"
    /\ LastCallOf("main").ret = history[1].policy
    /\ get(entries, history[1].name) = None
    /\ get(entries, history[2].name) = history[2].policy

(* C26: the operations on the global registry issued concurrently by       *)
(* several threads are atomic under the reader-writer lock: a writer       *)
(* excludes readers and other writers, readers may overlap, every result   *)
(* is the result of the operations in some sequential order (here the      *)
(* order in which they are applied), and no reader sees a partially        *)
(* applied register, remove or clear.                                      *)
C26_AtomicUnderLock ==
    /\ rwlock.writers = Holding(Writes)
    /\ rwlock.readers = Holding({"get", "all"})
    /\ Cardinality(rwlock.writers) <= 1
    /\ rwlock.writers # {} => rwlock.readers = {}
    /\ rwlock.readers # {} => EntriesAre(history)
    /\ \A t \in GlobalThreads :
          threads[t].pc = "drop" =>
              /\ ObservedResult(threads[t]) =
                    SequentialResult(threads[t],
                                     IF threads[t].op \in Writes THEN Before(history)
                                     ELSE history)
              /\ threads[t].op \in Writes =>
                    /\ history[Len(history)] =
                          Mutation(threads[t].op, threads[t].name, threads[t].policy)
                    /\ EntriesAre(history)

\* two readers hold the guard together after a register and a remove: one
\* has got the policy still registered, the other has listed the one pair
C26_Witness ==
    /\ rwlock.readers = GlobalThreads
    /\ Len(history) = 3
    /\ history[3].op = "remove"
    /\ threads["t1"].pc = "drop" /\ threads["t1"].op = "get"
    /\ IsSome(threads["t1"].ret)
    /\ threads["t2"].pc = "drop" /\ threads["t2"].op = "all"
    /\ Len(threads["t2"].ret) = 1

(* C27: retry_with_policy(name, op) and builder_for_policy(name, op) with  *)
(* a name that is not in the global registry return                        *)
(* DslError::PolicyMissing(name) carrying that name, without invoking the  *)
(* operation and without sleeping.                                         *)
C27_PolicyMissing ==
    /\ [](\A t \in DslTests :
            /\ threads[t].op = "retry_with_policy" /\ threads[t].pc = "drop" =>
                  threads[t].ret = MostRecent(history, threads[t].name)
            /\ ReturnedMissing(t) => threads[t].ret.val = PolicyMissing(threads[t].name)
            /\ DslReturned(t) /\ pc = "none" => invocations = 0 /\ trace = <<>>)
    /\ [][\A t \in DslTests :
            (/\ threads[t].pc = "policy"
             /\ threads[t].ret = None
             /\ threads'[t] # threads[t]) =>
                /\ threads'[t].pc = "returned"
                /\ threads'[t].ret = Err(PolicyMissing(threads[t].name))
                /\ UNCHANGED retry_call]_vars

\* test_retry_with_policy_missing has got PolicyMissing("missing") while
\* "default" is registered: no operation was invoked and nothing slept
C27_Witness ==
    /\ ReturnedMissing("test_retry_with_policy_missing")
    /\ threads["test_retry_with_policy_missing"].ret = Err(PolicyMissing("missing"))
    /\ IsSome(get(entries, "default"))
    /\ pc = "none"
    /\ invocations = 0
    /\ trace = <<>>

(* C28: after a thread has called clear_global_policies() and then         *)
(* register_global_policy(name, p), its following retry_with_policy(name,  *)
(* op) runs op under policy p and returns the retry result, never          *)
(* DslError::PolicyMissing, also when another thread runs                  *)
(* clear_global_policies() at any point in between, as the two DSL tests   *)
(* do.                                                                     *)
C28_RegisteredThenFound ==
    \A t \in DslTests :
        CalledInOrder(t, <<"clear", "register", "retry_with_policy">>) /\ DslReturned(t) =>
            /\ ~ReturnedMissing(t)
            /\ backoff = Unwrap(Program(t)[2].policy)
            /\ invocations >= 1
            /\ threads[t].ret = map_err_Execution(Unwrap(result))

\* both tests have ended, the clear of the second one in between the
\* register and the retry_with_policy of the first, which got PolicyMissing
C28_Witness ==
    /\ \A t \in DslTests : DslReturned(t)
    /\ history = <<Mutation("clear", "", None),
                   Mutation("register", "default", Some(TestPolicy)),
                   Mutation("clear", "", None)>>
    /\ threads["test_retry_with_policy_success"].ret = Err(PolicyMissing("default"))
    /\ invocations = 0

(* C31: with a custom strategy whose should_retry(attempt) is true but     *)
(* whose delay(attempt) returns None, a failure accepted by the predicate  *)
(* ends the call with kind Exhausted at the current attempt: on_failure is *)
(* invoked once, and neither notify nor the sleeper is invoked for that    *)
(* attempt.                                                                *)
C31_DelayNoneExhausts ==
    LET tail == SinceLastOp
        declined == \E i \in 1..Len(tail) : tail[i] = DelayEvent(attempt, None)
    IN  /\ \A i \in 1..Len(trace) :
              trace[i].ev = "delay" /\ trace[i].result = None => i > LastOp
        /\ declined =>
              /\ \E i \in 1..Len(tail) : tail[i] = ShouldRetryEvent(attempt, TRUE)
              /\ \A i \in 1..Len(tail) : tail[i].ev = "when" => tail[i].verdict
              /\ ReturnedErr
              /\ Returns.kind = "Exhausted"
              /\ Returns.attempts = attempt
              /\ Returns.attempts = invocations
              /\ Returns.cause = Some(trace[LastOp].result.val)
              /\ \A i \in 1..Len(tail) : tail[i].ev \notin {"notify", "sleep_ms"}
              /\ Len(Sleeps) = invocations - 1
              /\ Len(EventsOf("on_failure")) = (IF IsSome(on_failure) THEN 1 ELSE 0)
              /\ IsSome(on_failure) => tail[Len(tail)] = OnFailureEvent(Unwrap(on_failure), Returns)

\* a custom strategy allowed the retry of the second failure and gave no
\* delay for it, with notify and on_failure configured: one notification
\* and one sleep, both of the first attempt
C31_Witness ==
    /\ backoff.kind = "Custom"
    /\ IsSome(notify) /\ IsSome(on_failure)
    /\ ReturnedErr
    /\ invocations = 2
    /\ \E i \in 1..Len(SinceLastOp) : SinceLastOp[i] = DelayEvent(2, None)
    /\ Returns.kind = "Exhausted"
    /\ Returns.attempts = 2
    /\ Len(Notifies) = 1
    /\ Len(Sleeps) = 1
    /\ Len(EventsOf("on_failure")) = 1

(* C32: the attempt counter starts at 1, increases by exactly 1 per failed *)
(* and retried attempt, never decreases and never wraps: with a custom     *)
(* strategy that keeps allowing retries past attempt 255 and an operation  *)
(* that always fails, the counter reaches 255 and stays at 255 on every    *)
(* later iteration (it never becomes 0), while the loop keeps retrying.    *)
C32_AttemptSaturates ==
    /\ [](pc \in {"loop", "returned"} =>
            /\ attempt \in 1..U8Max
            /\ attempt = Min(Len(Sleeps) + 1, U8Max)
            /\ pc = "loop" => invocations = Len(Sleeps))
    /\ [][pc = "loop" =>
            /\ attempt' >= attempt
            /\ attempt' \in {attempt, attempt + 1}
            /\ attempt' = attempt + 1 <=> (pc' = "loop" /\ attempt < U8Max)
            /\ (pc' = "loop" /\ attempt = U8Max) =>
                  attempt' = U8Max /\ invocations' = invocations + 1]_vars

\* the operation has failed 257 times and the loop is about to invoke it
\* again: the counter is 255 since the 255th attempt
C32_Witness ==
    /\ pc = "loop"
    /\ backoff.kind = "Custom"
    /\ operation = Operation(<<>>, Err("e1"))
    /\ invocations = U8Max + 2
    /\ Len(Sleeps) = U8Max + 2
    /\ attempt = U8Max

(* C33: during any call with a built-in strategy with max_attempts >= 1,   *)
(* every reachable state satisfies 1 <= attempt <= max_attempts; a sleep   *)
(* (and notify) happens only while attempt < max_attempts, and every       *)
(* terminal RetryOutcome or RetryError reports attempts() in               *)
(* 1..max_attempts.                                                        *)
C33_AttemptWithinMax ==
    (/\ pc \in {"loop", "returned"}
     /\ BuiltIn(backoff)
     /\ MaxAttemptsOf(backoff) >= 1) =>
        /\ max_attempts = MaxAttemptsOf(backoff)
        /\ attempt \in 1..max_attempts
        /\ \A i \in 1..Len(trace) :
              /\ trace[i].ev = "notify" => trace[i].ctx.attempt < max_attempts
              /\ (trace[i].ev = "delay" /\ IsSome(trace[i].result)) =>
                    trace[i].attempt < max_attempts
              /\ trace[i].ev = "sleep_ms" =>
                    /\ i > 1
                    /\ trace[i - 1].ev \in {"delay", "notify"}
                    /\ Len(SelectSeq(SubSeq(trace, 1, i), LAMBDA x : x.ev = "sleep_ms"))
                          < max_attempts
        /\ Len(Sleeps) = attempt - 1
        /\ Returned =>
              /\ Returns.attempts \in 1..max_attempts
              /\ Returns.attempts = attempt

\* a call with a built-in strategy of max_attempts 3 that has failed at its
\* third attempt after two notifications and two sleeps
C33_Witness ==
    /\ BuiltIn(backoff)
    /\ max_attempts = MaxAttemptsBound
    /\ ReturnedErr
    /\ Returns.kind = "Exhausted"
    /\ Returns.attempts = max_attempts
    /\ Len(Sleeps) = max_attempts - 1
    /\ Len(Notifies) = max_attempts - 1

(* C34: when no predicate was configured with when(...), every failure is *)
(* treated as retryable: the call never returns kind PredicateRejected and *)
(* the only terminal failure is Exhausted, reached when the strategy       *)
(* declines.                                                               *)
C34_NoPredicateAllRetryable ==
    (when = None /\ pc \in {"loop", "returned"}) =>
        /\ EventsOf("when") = <<>>
        /\ \A i \in 1..Len(trace) :
              (trace[i].ev = "operation" /\ ~trace[i].result.ok) =>
                  /\ i < Len(trace)
                  /\ trace[i + 1].ev = "should_retry"
        /\ ReturnedErr =>
              /\ Returns.kind = "Exhausted"
              /\ StrategyDeclines
              /\ \E i \in 1..Len(SinceLastOp) :
                    \/ SinceLastOp[i] = ShouldRetryEvent(attempt, FALSE)
                    \/ SinceLastOp[i] = DelayEvent(attempt, None)

\* without a predicate, failures of two different causes were retried and
\* the call ended Exhausted when the strategy declined the third
C34_Witness ==
    /\ when = None
    /\ ReturnedErr
    /\ Returns.kind = "Exhausted"
    /\ invocations = 3
    /\ Len(Sleeps) = 2
    /\ \E i, j \in 1..Len(trace) :
          /\ trace[i].ev = "operation" /\ trace[j].ev = "operation"
          /\ ~trace[i].result.ok /\ ~trace[j].result.ok
          /\ trace[i].result.val # trace[j].result.val


(* C35: each builder setter changes only its own slot: when(...) sets the   *)
(* predicate and carries the operation, the backoff and the notify,         *)
(* on_success and on_failure callbacks over unchanged, and notify,          *)
(* on_success and on_failure each set their own callback and leave every    *)
(* other slot alone; callbacks registered before when(...) are still        *)
(* invoked by the call.                                                     *)
C35_SettersChangeOwnSlot ==
    /\ [][Len(setter_calls') = Len(setter_calls) + 1 =>
            LET c == setter_calls'[Len(setter_calls')]
            IN  /\ operation' = operation
                /\ backoff' = backoff
                /\ when' = IF c.fn = "when" THEN Some(c.arg) ELSE when
                /\ notify' = IF c.fn = "notify" THEN Some(c.arg) ELSE notify
                /\ on_success' = IF c.fn = "on_success" THEN Some(c.arg) ELSE on_success
                /\ on_failure' = IF c.fn = "on_failure" THEN Some(c.arg) ELSE on_failure]_vars
    /\ [](Returned =>
            /\ LastCall("notify") # None =>
                  /\ Len(Notifies) = Len(Sleeps)
                  /\ \A i \in 1..Len(Notifies) : Some(Notifies[i].cb) = LastCall("notify")
            /\ (ReturnedOk /\ LastCall("on_success") # None) =>
                  /\ Len(EventsOf("on_success")) = 1
                  /\ Some(EventsOf("on_success")[1].cb) = LastCall("on_success")
            /\ (ReturnedErr /\ LastCall("on_failure") # None) =>
                  /\ Len(EventsOf("on_failure")) = 1
                  /\ Some(EventsOf("on_failure")[1].cb) = LastCall("on_failure"))

\* notify(c1) then when(p) on the builder, and a call in which the predicate
\* accepts a failure: the retry is announced to c1
C35_Witness ==
    /\ Len(setter_calls) = 2
    /\ setter_calls[1] = SetterCall("notify", "c1")
    /\ setter_calls[2].fn = "when"
    /\ Returned
    /\ EventsOf("when") # <<>>
    /\ Len(Notifies) >= 1
    /\ Notifies[1].cb = "c1"

(* C36: after any sequence of register, remove and clear on a               *)
(* PolicyRegistry no two entries have the same name; register of a name     *)
(* that is present replaces the policy of its entry in place and leaves the *)
(* number of entries unchanged.                                             *)
C36_NamesUnique ==
    /\ [](/\ \A i, j \in 1..Len(entries) : entries[i][1] = entries[j][1] => i = j
          /\ \A name \in PolicyNames, policy \in RegistryPolicies :
                LET after == register(entries, name, policy).entries
                IN  IF IsSome(position(entries, name))
                    THEN /\ Len(after) = Len(entries)
                         /\ position(after, name) = position(entries, name)
                         /\ after[Unwrap(position(entries, name))] = Entry(name, policy)
                         /\ \A i \in 1..Len(entries) :
                               i # Unwrap(position(entries, name)) => after[i] = entries[i]
                    ELSE after = Append(entries, Entry(name, policy)))
    /\ [][(threads'["main"].op = "register" /\ history' # history
             /\ IsSome(get(entries, threads'["main"].name))) =>
                /\ Len(entries') = Len(entries)
                /\ [i \in 1..Len(entries) |-> entries'[i][1]]
                      = [i \in 1..Len(entries) |-> entries[i][1]]]_vars

\* two names registered, then the first one registered again with another
\* policy: still two entries, the first one holding the new policy
C36_Witness ==
    /\ Len(history) = 3
    /\ history[1].op = "register" /\ history[2].op = "register"
    /\ history[3].op = "register"
    /\ history[1].name # history[2].name
    /\ history[3].name = history[1].name
    /\ history[3].policy # history[1].policy
    /\ Len(entries) = 2
    /\ entries[1] = Entry(history[1].name, Unwrap(history[3].policy))
    /\ entries[2] = Entry(history[2].name, Unwrap(history[2].policy))

(* C37: register(name, p) and remove(name) affect only the entry of name:   *)
(* for every other name n, get(n) is the same before and after the call,    *)
(* and the set of the pairs of the other names in all() is unchanged; only  *)
(* their order may change.                                                  *)
C37_OthersUntouched ==
    /\ [](\A name \in PolicyNames :
            LET others(es) == {es[i] : i \in {j \in 1..Len(es) : es[j][1] # name}}
                removed == remove(entries, name).entries
            IN  /\ \A n \in PolicyNames \ {name} : get(removed, n) = get(entries, n)
                /\ others(all(removed)) = others(all(entries))
                /\ \A policy \in RegistryPolicies :
                      LET registered == register(entries, name, policy).entries
                      IN  /\ \A n \in PolicyNames \ {name} :
                                get(registered, n) = get(entries, n)
                          /\ others(all(registered)) = others(all(entries)))
    /\ [][(threads'["main"].op \in {"register", "remove"} /\ history' # history) =>
            LET name == threads'["main"].name
            IN  /\ \A n \in PolicyNames \ {name} : get(entries', n) = get(entries, n)
                /\ {entries'[i] : i \in {j \in 1..Len(entries') : entries'[j][1] # name}}
                      = {entries[i] : i \in {j \in 1..Len(entries) : entries[j][1] # name}}]_vars

\* two names registered, then the first one removed: the entry of the second
\* name has moved to the front and still holds its policy
C37_Witness ==
    /\ Len(history) = 3
    /\ history[1].op = "register" /\ history[2].op = "register"
    /\ history[1].name # history[2].name
    /\ history[3].op = "remove" /\ history[3].name = history[1].name
    /\ LastCallOf("main").op = "remove"
    /\ entries = <<Entry(history[2].name, Unwrap(history[2].policy))>>
    /\ all(entries) = <<Entry(history[2].name, Unwrap(history[2].policy))>>

(* C38: a BackoffPolicy is observationally equal to the strategy it wraps:  *)
(* delay, should_retry and max_attempts (the trait method and the inherent  *)
(* one) return exactly the values of the wrapped strategy for every         *)
(* variant, attempt and draw, so a retry run under BackoffPolicy::from(s)   *)
(* has the trace of a run under s.                                          *)
C38_PolicyDelegates ==
    LET s == backoff.policy
    IN  /\ backoff.kind = "Policy"
        /\ backoff.variant = s.kind
        /\ BuiltIn(s)
        /\ IsSome(probe) =>
              LET p == Unwrap(probe)
              IN  /\ p.strategy = backoff
                  /\ p.delay = delay(s, p.attempt, p.random_scalar)
                  /\ p.should_retry = should_retry(s, p.attempt)
                  /\ p.max_attempts = MaxAttemptsOf(s)
                  /\ BackoffPolicyMaxAttempts(backoff) = MaxAttemptsOf(s)
        /\ pc \in {"loop", "returned"} =>
              /\ max_attempts = MaxAttemptsOf(s)
              /\ \A i \in 1..Len(trace) :
                    /\ trace[i].ev = "should_retry" =>
                          trace[i].verdict = should_retry(s, trace[i].attempt)
                    /\ trace[i].ev = "delay" =>
                          \E r \in RandomScalars :
                              trace[i].result = delay(s, trace[i].attempt, r)
              /\ Len(Sleeps) = Len(SelectSeq(trace, LAMBDA x :
                                      x.ev = "delay" /\ IsSome(x.result)))
              /\ ReturnedErr => ~should_retry(s, attempt)

\* a run under BackoffPolicy::from of a Fibonacci strategy that slept twice,
\* for the delays the strategy gives for the attempts 1 and 2
C38_Witness ==
    /\ backoff.kind = "Policy"
    /\ backoff.variant = "Fibonacci"
    /\ Returned
    /\ Len(Sleeps) = 2
    /\ Sleeps[1].ms = Unwrap(delay(backoff.policy, 1, 0))
    /\ Sleeps[2].ms = Unwrap(delay(backoff.policy, 2, 0))
    /\ Sleeps[1].ms # U64Zero

(* C39: the fibonacci helper, in its core copy and in its FFI copy, equals  *)
(* the reference for every n in 0..255: fib(0) = 0, fib(1) = fib(2) = 1 and *)
(* fib(n) = fib(n-1) + fib(n-2) saturating at the maximum of u64; it is     *)
(* non-decreasing in n and never wraps around.                              *)
C39_FibonacciReference ==
    IsSome(probe) =>
        LET p == Unwrap(probe)
            n == p.n
            exact == ExactFib(n)
            TwoTo64 == <<0, 0, 0, 0, 0, 0, 0, 0, 1>>
        IN  /\ p.value = fibonacci(n)
            /\ p.value = ffi_fibonacci(n)
            /\ n = 0 => p.value = U64Zero
            /\ n \in {1, 2} => p.value = U64(1)
            /\ n >= 3 =>
                  p.value = saturating_add_u64(FibonacciOf(p.copy, n - 1),
                                               FibonacciOf(p.copy, n - 2))
            /\ n >= 1 => ~NatLess(NatOfU64(p.value), NatOfU64(FibonacciOf(p.copy, n - 1)))
            /\ p.value = IF NatLess(exact, TwoTo64) THEN U64OfNat(exact) ELSE U64MAX

\* fibonacci(94) of the FFI copy: the first Fibonacci number beyond u64, held
\* at the maximum, above fibonacci(93)
C39_Witness ==
    /\ IsSome(probe)
    /\ Unwrap(probe).copy = "ffi"
    /\ Unwrap(probe).n = 94
    /\ Unwrap(probe).value = U64MAX
    /\ ffi_fibonacci(93) # U64MAX
    /\ ffi_fibonacci(93) = U64OfNat(ExactFib(93))
====
